---- MODULE Spec2Model ----
(***************************************************************************)
(* Model of the scraping pipeline of ffc_races_history:                    *)
(*   backend/scrapers/cycling_scraper_db_optimized.py                      *)
(*   backend/utils/scraper_utils.py                                        *)
(*   backend/database/models.py                                            *)
(*   backend/config/constants.py                                           *)
(*                                                                         *)
(* Python strings whose content matters are sequences of atoms (each atom  *)
(* a TLA+ string): a table cell is a sequence of characters, a URL path    *)
(* segment / fragment / race id is a sequence of string pieces, so that    *)
(* concatenation, stripping and searching are computed, not assumed.       *)
(***************************************************************************)
EXTENDS Integers, Sequences, FiniteSets, TLC

\* ------------------------------------------------------------------------
\* Program constants (backend/config/constants.py)
\* ------------------------------------------------------------------------
MAX_RETRIES == 3
RETRY_BACKOFF_FACTOR == 2
RATE_LIMIT_DELAY == 1
MAX_PAGES == 100
MIN_PARTICIPANT_CELLS == 4
\* "Date inconnue": a date is the sequence of its blank-separated words
DEFAULT_DATE == <<"Date", "inconnue">>
RACE_ID_PREFIX == "race_"

\* ------------------------------------------------------------------------
\* Bounds of the model (not program constants)
\* ------------------------------------------------------------------------
\* number of successive runs (scraper objects) against the same storage
MaxRuns == 2
\* number of direct calls of scrape_race_details made after a run returned
MaxDirectCalls == 1
\* number of fetches (get_page_with_retry calls) per run that the network fails
MaxFetchFailures == 1
\* elapsed-time counter saturates here (seconds since the last HTTP request)
GapCap == 3
\* number of storage calls that raise sqlite3.Error
MaxStorageFaults == 1
\* a storage call that raises is among the first MaxFaultAt of its handler
MaxFaultAt == 3
\* largest `retries` argument of a get_page_with_retry call under test
MaxProbeRetries == 4
\* longest table handed to extract_participant_data row by row
MaxProbeRows == 5
\* longest entry table (rows after the header) served to scrape_race_data
MaxEntryRows == 3
\* longest raw club text handed to clean_club_name, besides the examples
MaxClubLen == 4
\* number of committed writes to the storage file while the API server runs
MaxWrites == 3
\* number of update_cache calls whose read of the storage raises
MaxReadErrors == 1

\* ------------------------------------------------------------------------
\* Text helpers
\* ------------------------------------------------------------------------
Min(a, b) == IF a <= b THEN a ELSE b

Digits == <<"0", "1", "2", "3", "4", "5", "6", "7", "8", "9">>

IsDigit(c) == \E i \in 1..10 : Digits[i] = c

DigitVal(c) == (CHOOSE i \in 1..10 : Digits[i] = c) - 1

IsSpace(c) == c \in {" ", "\t", "\n"}

UpperLetters == <<"A", "B", "C", "D", "E", "F", "G", "H", "I", "J", "K", "L", "M",
                  "N", "O", "P", "Q", "R", "S", "T", "U", "V", "W", "X", "Y", "Z">>

LowerLetters == <<"a", "b", "c", "d", "e", "f", "g", "h", "i", "j", "k", "l", "m",
                  "n", "o", "p", "q", "r", "s", "t", "u", "v", "w", "x", "y", "z">>

\* str.lower() on one character
LowerChar(c) ==
    IF \E i \in 1..26 : UpperLetters[i] = c
    THEN LowerLetters[CHOOSE i \in 1..26 : UpperLetters[i] = c]
    ELSE c

\* str.lower()
Lower(s) == [i \in 1..Len(s) |-> LowerChar(s[i])]

RECURSIVE LStrip(_)
LStrip(s) == IF s # <<>> /\ IsSpace(Head(s)) THEN LStrip(Tail(s)) ELSE s

RECURSIVE RStrip(_)
RStrip(s) ==
    IF s # <<>> /\ IsSpace(s[Len(s)]) THEN RStrip(SubSeq(s, 1, Len(s) - 1)) ELSE s

\* str.strip()
Strip(s) == RStrip(LStrip(s))

\* re.sub(r'\s+', ' ', text): every run of whitespace becomes one blank
RECURSIVE CollapseSpaces(_)
CollapseSpaces(s) ==
    IF s = <<>> THEN <<>>
    ELSE IF IsSpace(Head(s))
         THEN <<" ">> \o CollapseSpaces(LStrip(s))
         ELSE <<Head(s)>> \o CollapseSpaces(Tail(s))

\* scraper_utils.normalize_text
normalize_text(text) ==
    IF text = <<>> THEN <<>> ELSE Strip(CollapseSpaces(text))

HEADER_KEYWORDS ==
    { <<"n", "o", "m">>, <<"n", "a", "m", "e">>,
      <<"c", "o", "u", "r", "e", "u", "r">>, <<"r", "i", "d", "e", "r">>,
      <<"p", "r", "e", "n", "o", "m">> }

RECURSIVE DropDigits(_)
DropDigits(s) == IF s # <<>> /\ IsDigit(Head(s)) THEN DropDigits(Tail(s)) ELSE s

\* re.sub(CLUB_NUMBER_PATTERN, '', s), CLUB_NUMBER_PATTERN = r'^\d+\s*'
SubClubNumber(s) ==
    IF s # <<>> /\ IsDigit(Head(s)) THEN LStrip(DropDigits(s)) ELSE s

\* an Optional[str]: none says whether it is None
NoText == [none |-> TRUE, v |-> <<>>]

Text(v) == [none |-> FALSE, v |-> v]

\* faulty variant of clean_club_name: the cleaned text is returned even when empty
clean_club_name_cleaned(club_raw) ==
    IF club_raw = <<>> THEN NoText ELSE Text(SubClubNumber(Strip(club_raw)))

\* scraper_utils.clean_club_name
clean_club_name(club_raw) ==
    IF club_raw = <<>> THEN NoText
    ELSE LET cleaned == SubClubNumber(Strip(club_raw))
         IN  Text(IF cleaned # <<>> THEN cleaned ELSE club_raw)

\* faulty variant of is_header_entry: the names are compared as they are written
is_header_entry_exact(first_name, last_name) ==
    first_name \in HEADER_KEYWORDS \/ last_name \in HEADER_KEYWORDS

\* scraper_utils.is_header_entry
is_header_entry(first_name, last_name) ==
    \/ Lower(first_name) \in HEADER_KEYWORDS
    \/ Lower(last_name) \in HEADER_KEYWORDS

\* the digits of the first run of digits of s (re.search(r'\d+', s)), <<>> if none
RECURSIVE TakeDigits(_)
TakeDigits(s) ==
    IF s # <<>> /\ IsDigit(Head(s)) THEN <<Head(s)>> \o TakeDigits(Tail(s)) ELSE <<>>

RECURSIVE FirstDigitRun(_)
FirstDigitRun(s) ==
    IF s = <<>> THEN <<>>
    ELSE IF IsDigit(Head(s)) THEN TakeDigits(s) ELSE FirstDigitRun(Tail(s))

\* int() of a string of decimal digits
RECURSIVE ToInt(_)
ToInt(ds) ==
    IF ds = <<>> THEN 0 ELSE 10 * ToInt(SubSeq(ds, 1, Len(ds) - 1)) + DigitVal(ds[Len(ds)])

\* scraper_utils.extract_rank
extract_rank(rank_text, fallback_rank) ==
    IF rank_text = <<>> THEN fallback_rank
    ELSE IF FirstDigitRun(Strip(rank_text)) # <<>>
         THEN ToInt(FirstDigitRun(Strip(rank_text)))
         ELSE fallback_rank

\* "no value": Python's None; every optional value is a record
None == [none |-> TRUE]

\* scraper_utils.extract_participant_data; row is the sequence of the texts
\* of the row's td/th cells
extract_participant_data(row) ==
    IF Len(row) < MIN_PARTICIPANT_CELLS THEN None
    ELSE
      LET raw_data   == [i \in 1..Len(row) |-> Strip(row[i])]
          rank_text  == raw_data[1]
          uci_id     == raw_data[2]
          last_name  == raw_data[3]
          first_name == raw_data[4]
      IN  IF Len(raw_data) < 4 THEN None
          ELSE IF uci_id = <<>> \/ (last_name = <<>> /\ first_name = <<>>) THEN None
          ELSE IF is_header_entry(normalize_text(first_name), normalize_text(last_name))
               THEN None
          ELSE [ uci_id     |-> uci_id,
                 first_name |-> normalize_text(first_name),
                 last_name  |-> normalize_text(last_name),
                 rank       |-> extract_rank(rank_text, Len(raw_data)),
                 raw_data   |-> raw_data ]

\* ------------------------------------------------------------------------
\* URLs and race identifiers
\* ------------------------------------------------------------------------
\* A URL is [segs, trail, frag]: segs are the '/'-separated parts of the
\* path (each a sequence of string pieces), trail says whether the path ends
\* with '/', frag is the text after the first '#' (<<>> when absent).

\* the URL as text, used only as hashed content
RECURSIVE PathText(_)
PathText(segs) ==
    IF segs = <<>> THEN <<>> ELSE <<"/">> \o Head(segs) \o PathText(Tail(segs))

UrlText(u) ==
    PathText(u.segs) \o (IF u.trail THEN <<"/">> ELSE <<>>)
                     \o (IF u.frag # <<>> THEN <<"#">> \o u.frag ELSE <<>>)

\* race_url + f"#{payload}", then urlparse: the fragment starts at the first '#'
WithFragment(u, payload) ==
    [u EXCEPT !.frag = IF u.frag = <<>> THEN payload ELSE u.frag \o <<"#">> \o payload]

\* '/resultats/' in url_path
PathHasResultats(u) ==
    \E i \in 1..Len(u.segs) :
        u.segs[i] = <<"resultats">> /\ (i < Len(u.segs) \/ u.trail)

\* hashlib.md5(content).hexdigest()[:8], kept symbolic: a function of content
Md5Short(content) == <<"md5(">> \o content \o <<")">>

\* faulty variant of generate_race_id: the id is always hashed from
\* (name, date, URL), also when the URL carries a slug
generate_race_id_hashed(race_name, race_date, race_url) ==
    <<RACE_ID_PREFIX>> \o
        Md5Short(race_name \o <<"_">> \o race_date \o <<"_">> \o UrlText(race_url))

\* scraper_utils.generate_race_id
generate_race_id(race_name, race_date, race_url) ==
    IF race_url.segs # <<>> /\ PathHasResultats(race_url) /\ Len(race_url.segs) >= 2
    THEN LET last == race_url.segs[Len(race_url.segs)]
             url_id == IF race_url.frag # <<>>
                       THEN last \o <<"_">> \o race_url.frag
                       ELSE last
         IN  <<RACE_ID_PREFIX>> \o url_id
    ELSE <<RACE_ID_PREFIX>> \o
             Md5Short(race_name \o <<"_">> \o race_date \o <<"_">> \o UrlText(race_url))

\* ------------------------------------------------------------------------
\* Page structure lookups (BeautifulSoup queries, abstracted to their result)
\* ------------------------------------------------------------------------
\* A race detail page is
\*   [ lis     : the <li class="select2-results__option"> elements, each
\*               [stage_text, label, id] where stage_text is
\*               is_category_or_etape(text), label is
\*               extract_category_name(text) and id is the id attribute split
\*               at '-' (<<>> when the attribute is absent or empty),
\*     options : the <option> elements of every <select>, each
\*               [stage_text, label, value],
\*     divs    : the <div> elements in document order, each
\*               [id, classes, data_category, table],
\*     table   : what the RESULTS_TABLE_SELECTORS chain selects in the whole
\*               document (None when nothing matches) ]
\* A table is [rows]: the sequence of its <tr> rows, a row being the sequence
\* of its cell texts.

Table(rows) == [rows |-> rows]

RECURSIVE SelectSeq2(_, _)
SelectSeq2(s, keep) ==
    IF s = <<>> THEN <<>>
    ELSE (IF keep[1] THEN <<Head(s)>> ELSE <<>>)
         \o SelectSeq2(Tail(s), Tail(keep))

\* first try of _find_etape_stages: the li elements
EtapesFromLis(page) ==
    LET ok(li) == /\ li.stage_text
                  /\ Len(li.id) >= 2            \* li_id and '-' in li_id
                  /\ li.id[Len(li.id)] # <<>>   \* if payload
        keep == [i \in 1..Len(page.lis) |-> ok(page.lis[i])]
        kept == SelectSeq2(page.lis, keep)
    IN  [i \in 1..Len(kept) |->
            [etape_name |-> kept[i].label, payload |-> kept[i].id[Len(kept[i].id)]]]

\* second try of _find_etape_stages: the option elements
EtapesFromOptions(page) ==
    LET ok(o) == o.stage_text /\ o.value # <<>>
        keep == [i \in 1..Len(page.options) |-> ok(page.options[i])]
        kept == SelectSeq2(page.options, keep)
    IN  [i \in 1..Len(kept) |->
            [etape_name |-> kept[i].label, payload |-> kept[i].value]]

\* OptimizedCyclingScraperDB._find_etape_stages
find_etape_stages(page) ==
    IF EtapesFromLis(page) # <<>> THEN EtapesFromLis(page) ELSE EtapesFromOptions(page)

\* Python's `payload in attr_value` on strings
IsSubstring(p, s) ==
    \E i \in 0..(Len(s) - Len(p)) : SubSeq(s, i + 1, i + Len(p)) = p

\* index of the first element of s satisfying the flags, 0 if none
FirstIndex(flags) ==
    IF \E i \in 1..Len(flags) : flags[i]
    THEN CHOOSE i \in 1..Len(flags) : flags[i] /\ \A j \in 1..(i - 1) : ~flags[j]
    ELSE 0

\* OptimizedCyclingScraperDB._find_etape_results_table
find_etape_results_table(page, payload) ==
    LET d == page.divs
        byId    == FirstIndex([i \in 1..Len(d) |-> d[i].id = payload])
        byClass == FirstIndex([i \in 1..Len(d) |->
                       \E k \in 1..Len(d[i].classes) : d[i].classes[k] = payload])
        byData  == FirstIndex([i \in 1..Len(d) |-> d[i].data_category = payload])
        byAny   == FirstIndex([i \in 1..Len(d) |->
                       \/ IsSubstring(payload, d[i].id)
                       \/ IsSubstring(payload, d[i].data_category)
                       \/ \E k \in 1..Len(d[i].classes) :
                              IsSubstring(payload, d[i].classes[k])])
        target  == IF byId # 0 THEN byId
                   ELSE IF byClass # 0 THEN byClass
                   ELSE IF byData # 0 THEN byData
                   ELSE byAny
    IN  IF target # 0 THEN d[target].table ELSE None

\* scraper_utils.find_results_table
find_results_table(page) == page.table

\* ------------------------------------------------------------------------
\* Card dates
\* ------------------------------------------------------------------------
\* scraper_utils.convert_abbreviated_months_to_french, on one word
ConvertMonthWord(w) ==
    CASE w \in {"jan", "Jan", "JAN"} -> "janvier"
      [] w \in {"fev", "Fev", "FEV"} -> "février"
      [] w \in {"mar", "Mar", "MAR"} -> "mars"
      [] w \in {"avr", "Avr", "AVR"} -> "avril"
      [] w \in {"mai", "Mai", "MAI"} -> "mai"
      [] w \in {"jun", "Jun", "JUN", "juin", "Juin", "JUIN"} -> "juin"
      [] w \in {"jui", "Jui", "jul", "Jul", "juil", "Juil"} -> "juillet"
      [] w \in {"aou", "Aou", "AOU"} -> "août"
      [] w \in {"sep", "Sep", "SEP", "sept", "Sept", "SEPT"} -> "septembre"
      [] w \in {"oct", "Oct", "OCT"} -> "octobre"
      [] w \in {"nov", "Nov", "NOV"} -> "novembre"
      [] w \in {"dec", "Dec", "DEC"} -> "décembre"
      [] OTHER -> w

convert_abbreviated_months_to_french(date_text) ==
    [i \in 1..Len(date_text) |-> ConvertMonthWord(date_text[i])]

\* OptimizedCyclingScraperDB._process_card_date on the words of the card's
\* date text: "" stays "", "Du d m au d m y" keeps the first day, anything
\* else is kept with its blanks collapsed; then the months are converted.
process_card_date(raw_date) ==
    IF raw_date = <<>> THEN <<>>
    ELSE IF Len(raw_date) >= 4 /\ raw_date[1] \in {"Du", "du", "DU"}
         THEN convert_abbreviated_months_to_french(
                  <<raw_date[2], raw_date[3], raw_date[Len(raw_date)]>>)
         ELSE convert_abbreviated_months_to_french(raw_date)

\* ------------------------------------------------------------------------
\* Listing pages
\* ------------------------------------------------------------------------
\* A listing page is the sequence of its anchors in document order, each
\* [url, card, name, raw_date]: url is urljoin(BASE_URL, href), card says
\* whether the anchor matches 'a.card-result' (otherwise it only matches
\* 'a[class*="card-result"]'), name and raw_date are the card's texts.

RECURSIVE CollectLinks(_, _)
CollectLinks(anchors, race_links) ==
    IF anchors = <<>> THEN race_links
    ELSE LET a == Head(anchors)
         IN  IF PathHasResultats(a.url) /\ ~(\E i \in 1..Len(race_links) : race_links[i] = a.url)
             THEN CollectLinks(Tail(anchors), Append(race_links, a.url))
             ELSE CollectLinks(Tail(anchors), race_links)

OnlyCards(anchors) ==
    SelectSeq2(anchors, [i \in 1..Len(anchors) |-> anchors[i].card])

\* the race links scrape_race_list_page returns for a fetched page
PageRaceLinks(anchors) ==
    IF CollectLinks(OnlyCards(anchors), <<>>) # <<>>
    THEN CollectLinks(OnlyCards(anchors), <<>>)
    ELSE CollectLinks(anchors, <<>>)

\* the card metadata scrape_race_list_page stores for a fetched page: the
\* first card of each URL writes its entry
RECURSIVE StoreCardMetadata(_, _, _)
StoreCardMetadata(anchors, seen, meta) ==
    IF anchors = <<>> THEN meta
    ELSE LET a == Head(anchors)
         IN  IF a.card /\ PathHasResultats(a.url) /\ a.url \notin seen
             THEN StoreCardMetadata(Tail(anchors), seen \cup {a.url},
                      [u \in (DOMAIN meta) \cup {a.url} |->
                          IF u = a.url
                          THEN [name |-> a.name, date |-> process_card_date(a.raw_date)]
                          ELSE meta[u]])
             ELSE StoreCardMetadata(Tail(anchors), seen, meta)

\* list(dict.fromkeys(all_race_links))
RECURSIVE Dedup(_, _)
Dedup(links, acc) ==
    IF links = <<>> THEN acc
    ELSE IF \E i \in 1..Len(acc) : acc[i] = Head(links)
         THEN Dedup(Tail(links), acc)
         ELSE Dedup(Tail(links), Append(acc, Head(links)))

\* ------------------------------------------------------------------------
\* Storage (backend/database/models.py, CyclingDatabase)
\* ------------------------------------------------------------------------
\* races    : race id -> [date, name]
\* cyclists : uci id -> [first_name, last_name]
\* results  : <<race id, uci id>> -> rank   (one row per pair)

Put(f, k, v) == [x \in (DOMAIN f) \cup {k} |-> IF x = k THEN v ELSE f[x]]

IsNone(x) == "none" \in DOMAIN x

\* faulty variant of race_exists: the lookup never finds the race
race_exists_never(races, race_id) == FALSE

\* CyclingDatabase.race_exists
race_exists(races, race_id) == race_id \in DOMAIN races

\* CyclingDatabase.add_or_update_race (INSERT OR REPLACE, committed on return)
add_or_update_race(races, race_id, date, name) ==
    Put(races, race_id, [date |-> date, name |-> name])

\* CyclingDatabase.add_or_update_cyclist
add_or_update_cyclist(cyclists, d) ==
    Put(cyclists, d.uci_id, [first_name |-> d.first_name, last_name |-> d.last_name])

\* CyclingDatabase.add_race_result
add_race_result(results, race_id, uci_id, rank) ==
    Put(results, <<race_id, uci_id>>, rank)

\* the parameters add_race_result declares
add_race_result_params == {"race_id", "uci_id", "rank", "raw_data"}

\* the keyword arguments _process_race_participants passes to it
add_race_result_kwargs ==
    {"race_id", "uci_id", "rank", "race_participant_count", "raw_data"}

\* a call with a keyword the function does not declare raises TypeError
\* before the function body runs
AddRaceResultRaises == ~(add_race_result_kwargs \subseteq add_race_result_params)

\* ------------------------------------------------------------------------
\* Execution of a handler as a sequence of interruptible steps
\* ------------------------------------------------------------------------
\* The handlers below thread an execution record st through their
\* statements.  Every statement with an effect (an HTTP request, a sleep, a
\* storage write, a counter increment, a set insertion) is one step.  st.fuel
\* is the number of steps after which the operator's KeyboardInterrupt
\* arrives (-1: it never does); once it has arrived (st.halted) nothing more
\* is executed, because KeyboardInterrupt is not an Exception and passes
\* every `except Exception` of the pipeline.

Live(st) == ~st.halted /\ st.fuel # 0

Spend(st) == [st EXCEPT !.fuel = IF @ > 0 THEN @ - 1 ELSE @, !.steps = @ + 1]

Halt(st) == [st EXCEPT !.halted = TRUE]

\* self.stats[key] += 1
IncStat(st, key) ==
    IF Live(st) THEN [Spend(st) EXCEPT !.stats[key] = @ + 1] ELSE Halt(st)

\* time.sleep(d)
Sleep(st, d) ==
    IF Live(st)
    THEN [Spend(st) EXCEPT !.gap = Min(@ + d, GapCap),
                           !.events = Append(@, [e |-> "sleep", d |-> d])]
    ELSE Halt(st)

\* session.get(url): min_gap records the shortest pause that preceded a
\* request which was not the first of the run
HttpGet(st) ==
    IF Live(st)
    THEN [Spend(st) EXCEPT !.reqs = @ + 1,
                           !.min_gap = IF st.requested THEN Min(@, st.gap) ELSE @,
                           !.gap = 0,
                           !.requested = TRUE,
                           !.events = Append(@, [e |-> "get", d |-> 0])]
    ELSE Halt(st)

RECURSIVE Pow(_, _)
Pow(b, e) == IF e = 0 THEN 1 ELSE b * Pow(b, e - 1)

\* faulty variant of RetryLoop: it also waits after the last failed attempt
RECURSIVE RetryLoopWaitsAfterLast(_, _, _, _)
RetryLoopWaitsAfterLast(st, attempt, fails, retries) ==
    IF attempt >= retries THEN [st EXCEPT !.resp = FALSE]
    ELSE LET s1 == HttpGet(st)
         IN  IF attempt >= fails THEN [s1 EXCEPT !.resp = TRUE]
             ELSE RetryLoopWaitsAfterLast(
                      Sleep(s1, Pow(RETRY_BACKOFF_FACTOR, attempt)), attempt + 1, fails, retries)

\* the loop `for attempt in range(retries)` of scraper_utils.get_page_with_retry;
\* the first `fails` attempts raise a RequestException.  st.resp tells whether
\* a response was returned (FALSE: the function returned None).
RECURSIVE RetryLoop(_, _, _, _)
RetryLoop(st, attempt, fails, retries) ==
    IF attempt >= retries THEN [st EXCEPT !.resp = FALSE]
    ELSE LET s1 == HttpGet(st)
         IN  IF attempt >= fails THEN [s1 EXCEPT !.resp = TRUE]
             ELSE IF attempt < retries - 1
                  THEN RetryLoop(Sleep(s1, Pow(RETRY_BACKOFF_FACTOR, attempt)),
                                 attempt + 1, fails, retries)
                  ELSE [s1 EXCEPT !.resp = FALSE]

\* scraper_utils.get_page_with_retry called with the default retries=MAX_RETRIES
get_page_with_retry(st, attempt, fails) == RetryLoop(st, attempt, fails, MAX_RETRIES)

Call(op, race, uci) == [op |-> op, race |-> race, uci |-> uci]

\* a method of the storage is called: st.attempts lists the calls made, in
\* their order, whether they return or raise
Attempt(st, call) == [st EXCEPT !.attempts = Append(@, call)]

\* a storage call reaches the database file: st.fault counts the calls left
\* before one of them raises sqlite3.Error (0: none does); st.raised tells
\* whether the call just made raised, st.raises lists the calls that raised
Storage(st, op, race_id) ==
    [st EXCEPT !.fault = IF @ > 0 THEN @ - 1 ELSE 0,
               !.raised = (st.fault = 1),
               !.raises = IF st.fault = 1 THEN Append(@, Call(op, race_id, <<>>)) ELSE @]

\* the call self.db.race_exists(race_id): it either raises or answers
DbRaceExists(st, race_id) ==
    IF Live(st)
    THEN Storage(Attempt(st, Call("race_exists", race_id, <<>>)), "race_exists", race_id)
    ELSE Halt(st)

\* faulty variant of DbAddRace: the call returns without having written the race
DbAddRaceLost(st, race_id, date, name) ==
    IF Live(st)
    THEN Spend(Storage(Attempt(st, Call("add_or_update_race", race_id, <<>>)),
                 "add_or_update_race", race_id))
    ELSE Halt(st)

\* the call self.db.add_or_update_race(race_id, date, name)
DbAddRace(st, race_id, date, name) ==
    IF Live(st)
    THEN IF Storage(Attempt(st, Call("add_or_update_race", race_id, <<>>)),
                 "add_or_update_race", race_id).raised
         THEN Spend(Storage(Attempt(st, Call("add_or_update_race", race_id, <<>>)),
                 "add_or_update_race", race_id))
         ELSE [Spend(Storage(Attempt(st, Call("add_or_update_race", race_id, <<>>)),
                 "add_or_update_race", race_id)) EXCEPT
                  !.races = add_or_update_race(@, race_id, date, name),
                  !.calls = Append(@, Call("add_or_update_race", race_id, <<>>))]
    ELSE Halt(st)

DbAddCyclist(st, d) ==
    IF Live(st)
    THEN IF Storage(Attempt(st, Call("add_or_update_cyclist", <<>>, d.uci_id)),
                 "add_or_update_cyclist", <<>>).raised
         THEN Spend(Storage(Attempt(st, Call("add_or_update_cyclist", <<>>, d.uci_id)),
                 "add_or_update_cyclist", <<>>))
         ELSE [Spend(Storage(Attempt(st, Call("add_or_update_cyclist", <<>>, d.uci_id)),
                 "add_or_update_cyclist", <<>>)) EXCEPT
                  !.cyclists = add_or_update_cyclist(@, d),
                  !.calls = Append(@, Call("add_or_update_cyclist", <<>>, d.uci_id))]
    ELSE Halt(st)

\* the call self.db.add_race_result(race_id=..., ..., race_participant_count=...):
\* st.raised tells whether it raised
DbAddResult(st, race_id, d) ==
    IF Live(st)
    THEN LET s1 == Spend(Attempt(st, Call("add_race_result", race_id, d.uci_id)))
         IN  IF AddRaceResultRaises
             THEN [s1 EXCEPT !.raised = TRUE,
                             !.raises = Append(@, Call("add_race_result", race_id, <<>>))]
             ELSE [s1 EXCEPT !.results = add_race_result(@, race_id, d.uci_id, d.rank),
                             !.calls = Append(@, Call("add_race_result", race_id, d.uci_id)),
                             !.raised = FALSE]
    ELSE Halt(st)

\* self.db.race_exists(race_id) returned True: the observation of the handler
\* records it (st.hits, and its place among the storage calls)
Found(st, race_id) ==
    IF Live(st)
    THEN [st EXCEPT !.hits = Append(@, race_id),
                    !.calls = Append(@, Call("race_exists", race_id, <<>>))]
    ELSE st

\* self.processed_urls.add(race_url)
AddProcessed(st, race_url) ==
    IF Live(st) THEN [Spend(st) EXCEPT !.processed = @ \cup {race_url}] ELSE Halt(st)

\* faulty variant of process_race_participants: the result of a row is
\* written before its cyclist
RECURSIVE process_race_participants_result_first(_, _, _)
process_race_participants_result_first(st, rows, race_id) ==
    IF rows = <<>> THEN st
    ELSE LET d == extract_participant_data(Head(rows))
         IN  IF IsNone(d) THEN process_race_participants_result_first(st, Tail(rows), race_id)
             ELSE LET s1 == DbAddResult(st, race_id, d)
                      s2 == IF s1.raised THEN s1 ELSE DbAddCyclist(s1, d)
                      s3 == IF s2.raised
                            THEN IncStat(s2, "errors")
                            ELSE IncStat(s2, "new_results")
                  IN  CHOOSE r \in {process_race_participants_result_first(s, Tail(rows), race_id) :
                                         s \in {s3}} : TRUE

\* OptimizedCyclingScraperDB._process_race_participants, rows = rows[1:];
\* s ranges over the single execution s3 reached after the first row, from
\* which the loop goes on with the rows that follow
RECURSIVE process_race_participants(_, _, _)
process_race_participants(st, rows, race_id) ==
    IF rows = <<>> THEN st
    ELSE LET d == extract_participant_data(Head(rows))
         IN  IF IsNone(d) THEN process_race_participants(st, Tail(rows), race_id)
             ELSE LET s1 == DbAddCyclist(st, d)
                      s2 == IF s1.raised THEN s1 ELSE DbAddResult(s1, race_id, d)
                      s3 == IF s2.raised
                            THEN IncStat(s2, "errors")
                            ELSE IncStat(s2, "new_results")
                  IN  CHOOSE r \in {process_race_participants(s, Tail(rows), race_id) :
                                         s \in {s3}} : TRUE

\* the `except Exception` clause of the stage loop (lines 244-248): the error
\* is counted and the loop continues with the next stage
StageRaised(st) == [IncStat(st, "errors") EXCEPT !.raised = FALSE]

\* faulty variant of ProcessEtapes: an exception in a stage ends the loop
RECURSIVE ProcessEtapesAborting(_, _, _, _, _, _)
ProcessEtapesAborting(st, page, race_url, card_data, etapes, races_processed) ==
    IF etapes = <<>>
    THEN [AddProcessed(st, race_url) EXCEPT !.ret = races_processed > 0]
    ELSE LET e == Head(etapes)
             etape_name == card_data.name \o <<" - ">> \o e.etape_name
             race_id == generate_race_id(etape_name, card_data.date,
                                         WithFragment(race_url, e.payload))
             results_table == find_etape_results_table(page, e.payload)
             s0 == DbRaceExists(st, race_id)
         IN  IF s0.raised
             THEN ProcessEtapesAborting(StageRaised(s0),
                                page, race_url, card_data, <<>>, races_processed)
             ELSE IF race_exists(s0.races, race_id)
             THEN ProcessEtapesAborting(Found(s0, race_id),
                                page, race_url, card_data, Tail(etapes), races_processed)
             ELSE IF IsNone(results_table)
             THEN ProcessEtapesAborting(s0, page, race_url, card_data, Tail(etapes), races_processed)
             ELSE LET s1 == DbAddRace(s0, race_id, card_data.date, etape_name)
                      s2 == IncStat(s1, "new_races")
                      s3 == process_race_participants(s2, Tail(results_table.rows), race_id)
                  IN  IF s1.raised
                      THEN ProcessEtapesAborting(StageRaised(s1), page, race_url, card_data,
                                         <<>>, races_processed)
                      ELSE ProcessEtapesAborting(s3, page, race_url, card_data, Tail(etapes),
                                         races_processed + 1)

\* the stage loop of scrape_race_details (lines 211-251)
RECURSIVE ProcessEtapes(_, _, _, _, _, _)
ProcessEtapes(st, page, race_url, card_data, etapes, races_processed) ==
    IF etapes = <<>>
    THEN [AddProcessed(st, race_url) EXCEPT !.ret = races_processed > 0]
    ELSE LET e == Head(etapes)
             etape_name == card_data.name \o <<" - ">> \o e.etape_name
             race_id == generate_race_id(etape_name, card_data.date,
                                         WithFragment(race_url, e.payload))
             results_table == find_etape_results_table(page, e.payload)
             s0 == DbRaceExists(st, race_id)
         IN  IF s0.raised
             THEN ProcessEtapes(StageRaised(s0),
                                page, race_url, card_data, Tail(etapes), races_processed)
             ELSE IF race_exists(s0.races, race_id)
             THEN ProcessEtapes(Found(s0, race_id),
                                page, race_url, card_data, Tail(etapes), races_processed)
             ELSE IF IsNone(results_table)
             THEN ProcessEtapes(s0, page, race_url, card_data, Tail(etapes), races_processed)
             ELSE LET s1 == DbAddRace(s0, race_id, card_data.date, etape_name)
                      s2 == IncStat(s1, "new_races")
                      s3 == process_race_participants(s2, Tail(results_table.rows), race_id)
                  IN  IF s1.raised
                      THEN ProcessEtapes(StageRaised(s1), page, race_url, card_data,
                                         Tail(etapes), races_processed)
                      ELSE ProcessEtapes(s3, page, race_url, card_data, Tail(etapes),
                                         races_processed + 1)

\* the outer `except Exception` clause of scrape_race_details (lines 291-294)
OuterRaised(st) == [IncStat(st, "errors") EXCEPT !.raised = FALSE, !.ret = FALSE]

\* faulty variant of ProcessSingle: the race is written under the default name
\* instead of the name of its card
ProcessSingleUnknownRace(st, page, race_url, card_data) ==
    LET race_id == generate_race_id(card_data.name, card_data.date, race_url)
        results_table == find_results_table(page)
        s0 == DbRaceExists(st, race_id)
    IN  IF s0.raised
        THEN OuterRaised(s0)
        ELSE IF race_exists(s0.races, race_id)
        THEN [AddProcessed(IncStat(Found(s0, race_id), "skipped_races"), race_url)
                 EXCEPT !.ret = FALSE]
        ELSE IF IsNone(results_table)
        THEN [IncStat(s0, "errors") EXCEPT !.ret = FALSE]
        ELSE LET s1 == DbAddRace(s0, race_id, card_data.date, <<"Unknown Race">>)
                 s2 == IncStat(s1, "new_races")
                 s3 == process_race_participants(s2, Tail(results_table.rows), race_id)
             IN  IF s1.raised
                 THEN OuterRaised(s1)
                 ELSE [AddProcessed(s3, race_url) EXCEPT !.ret = TRUE]

\* the single-leaderboard branch of scrape_race_details (lines 254-287)
ProcessSingle(st, page, race_url, card_data) ==
    LET race_id == generate_race_id(card_data.name, card_data.date, race_url)
        results_table == find_results_table(page)
        s0 == DbRaceExists(st, race_id)
    IN  IF s0.raised
        THEN OuterRaised(s0)
        ELSE IF race_exists(s0.races, race_id)
        THEN [AddProcessed(IncStat(Found(s0, race_id), "skipped_races"), race_url)
                 EXCEPT !.ret = FALSE]
        ELSE IF IsNone(results_table)
        THEN [IncStat(s0, "errors") EXCEPT !.ret = FALSE]
        ELSE LET s1 == DbAddRace(s0, race_id, card_data.date, card_data.name)
                 s2 == IncStat(s1, "new_races")
                 s3 == process_race_participants(s2, Tail(results_table.rows), race_id)
             IN  IF s1.raised
                 THEN OuterRaised(s1)
                 ELSE [AddProcessed(s3, race_url) EXCEPT !.ret = TRUE]

\* faulty variant of already_processed: the session set is never consulted
already_processed_never(processed, race_url) == FALSE

\* the session check of scrape_race_details (line 172)
already_processed(processed, race_url) == race_url \in processed

\* faulty variant of scrape_race_details: a failed fetch is not counted
scrape_race_details_uncounted(st, race_url, page, fails) ==
    IF already_processed(st.processed, race_url)
    THEN [IncStat(st, "skipped_races") EXCEPT !.ret = FALSE]
    ELSE LET s1 == get_page_with_retry(st, 0, fails)
         IN  IF ~s1.resp
             THEN [s1 EXCEPT !.ret = FALSE]
             ELSE IF race_url \notin DOMAIN s1.meta
             THEN [IncStat(s1, "errors") EXCEPT !.ret = FALSE]
             ELSE IF s1.meta[race_url].date = DEFAULT_DATE
             THEN [s1 EXCEPT !.ret = FALSE]
             ELSE IF find_etape_stages(page) # <<>>
             THEN ProcessEtapes(s1, page, race_url, s1.meta[race_url],
                                find_etape_stages(page), 0)
             ELSE ProcessSingle(s1, page, race_url, s1.meta[race_url])

\* OptimizedCyclingScraperDB.scrape_race_details; page is the content served
\* for race_url, fails the number of failing attempts of its fetch
scrape_race_details(st, race_url, page, fails) ==
    IF already_processed(st.processed, race_url)
    THEN [IncStat(st, "skipped_races") EXCEPT !.ret = FALSE]
    ELSE LET s1 == get_page_with_retry(st, 0, fails)
         IN  IF ~s1.resp
             THEN [IncStat(s1, "errors") EXCEPT !.ret = FALSE]
             ELSE IF race_url \notin DOMAIN s1.meta
             THEN [IncStat(s1, "errors") EXCEPT !.ret = FALSE]
             ELSE IF s1.meta[race_url].date = DEFAULT_DATE
             THEN [s1 EXCEPT !.ret = FALSE]
             ELSE IF find_etape_stages(page) # <<>>
             THEN ProcessEtapes(s1, page, race_url, s1.meta[race_url],
                                find_etape_stages(page), 0)
             ELSE ProcessSingle(s1, page, race_url, s1.meta[race_url])

\* faulty variant of scrape_race_list_page: a failed fetch is not counted
scrape_race_list_page_uncounted(st, anchors, fails) ==
    LET s1 == get_page_with_retry(st, 0, fails)
    IN  IF ~s1.resp
        THEN [s1 EXCEPT !.links = <<>>]
        ELSE LET s2 == IF Live(s1)
                       THEN [Spend(s1) EXCEPT !.meta = StoreCardMetadata(OnlyCards(anchors), {}, @)]
                       ELSE Halt(s1)
             IN  [IncStat(s2, "pages_scraped") EXCEPT !.links = PageRaceLinks(anchors)]

\* OptimizedCyclingScraperDB.scrape_race_list_page; anchors is the content
\* served for the listing page; st.links is the list it returns
scrape_race_list_page(st, anchors, fails) ==
    LET s1 == get_page_with_retry(st, 0, fails)
    IN  IF ~s1.resp
        THEN [IncStat(s1, "errors") EXCEPT !.links = <<>>]
        ELSE LET s2 == IF Live(s1)
                       THEN [Spend(s1) EXCEPT !.meta = StoreCardMetadata(OnlyCards(anchors), {}, @)]
                       ELSE Halt(s1)
             IN  [IncStat(s2, "pages_scraped") EXCEPT !.links = PageRaceLinks(anchors)]

\* ------------------------------------------------------------------------
\* The web site: the inputs of a run
\* ------------------------------------------------------------------------
Url(segs, trail, frag) == [segs |-> segs, trail |-> trail, frag |-> frag]

\* https://paysdelaloirecyclisme.fr/resultats/gp-a
UA == Url(<< <<"resultats">>, <<"gp", "-", "a">> >>, FALSE, <<>>)
\* https://paysdelaloirecyclisme.fr/resultats/tour-b
UB == Url(<< <<"resultats">>, <<"tour", "-", "b">> >>, FALSE, <<>>)
\* https://paysdelaloirecyclisme.fr/resultats/?course=c  (no slug in the path)
UC == Url(<< <<"resultats">> >>, TRUE, <<>>)

HeaderRow == << <<"R", "g">>, <<"U", "C", "I">>, <<"N", "o", "m">>, <<"P", "r", "e", "n", "o", "m">> >>
RowLea    == << <<"1">>, <<"1", "0", "1">>, <<"D", "U", "P", "O", "N", "T">>, <<"L", "e", "a">>,
                <<"P", "D", "L">>, <<"5", "2", " ", "V", "C">> >>
RowTom    == << <<" ", "2", "e">>, <<"1", "0", "2">>, <<"M", "A", "R", "T", "I", "N">>,
                <<"T", "o", "m">>, <<"P", "D", "L">>, <<"V", "S">> >>
RowDnf    == << <<"D", "N", "F">>, <<"1", "0", "3">>, <<"P", "E", "T", "I", "T">>, <<"A", "n", "n">> >>
RowShort  == << <<"3">>, <<"x">> >>
RowHeaderLike == << <<>>, <<"U", "C", "I">>, <<"N", "O", "M">>, <<"P", "r", "e", "n", "o", "m">> >>

TableFull  == Table(<<HeaderRow, RowLea, RowShort, RowTom>>)
TableStage == Table(<<HeaderRow, RowTom, RowHeaderLike, RowDnf>>)
TableOne   == Table(<<HeaderRow, RowLea>>)

Ranking1  == <<"ranking", "1">>
Ranking2  == <<"ranking", "2">>
Ranking10 == <<"ranking", "1", "0">>

SinglePage(t) == [lis |-> <<>>, options |-> <<>>, divs |-> <<>>, table |-> t]

Li(text_ok, label, id) == [stage_text |-> text_ok, label |-> label, id |-> id]

Opt(text_ok, label, value) == [stage_text |-> text_ok, label |-> label, value |-> value]

Div(id, classes, data, t) == [id |-> id, classes |-> classes, data_category |-> data, table |-> t]

\* two stages announced by li elements, each with its own div and table
PageTwoStages ==
    [ lis |-> << Li(TRUE, <<"Etape 1">>, << <<"select2">>, <<"result">>, Ranking1 >>),
                 Li(FALSE, <<"General">>, << <<"select2">>, <<"result">>, <<"ranking", "0">> >>),
                 Li(TRUE, <<"Etape 2">>, << <<"select2">>, <<"result">>, Ranking2 >>) >>,
      options |-> <<>>,
      divs |-> << Div(Ranking1, <<>>, <<>>, TableStage), Div(Ranking2, <<>>, <<>>, TableOne) >>,
      table |-> TableStage ]

\* three categories announced by option elements: two carry the same value,
\* the third has no div of its own but its value occurs inside another id
PageOddStages ==
    [ lis |-> << Li(TRUE, <<"A1">>, <<>>) >>,
      options |-> << Opt(TRUE, <<"A1">>, Ranking2), Opt(TRUE, <<"A2">>, Ranking2),
                     Opt(TRUE, <<"U17">>, <<"ranking", "3">>), Opt(TRUE, <<"U15">>, <<>>),
                     Opt(TRUE, <<"A3">>, Ranking1) >>,
      divs |-> << Div(<<"tab">>, << Ranking2 >>, <<>>, TableOne),
                  Div(Ranking10, <<>>, <<>>, TableStage) >>,
      table |-> TableOne ]

Card(url, name, raw_date) == [url |-> url, card |-> TRUE, name |-> name, raw_date |-> raw_date]

PlainAnchor(url) == [url |-> url, card |-> FALSE, name |-> <<>>, raw_date |-> <<>>]

Date1 == <<"25", "Mai", "2024">>
Date2 == <<"Du", "1", "Sep", "au", "2", "Sep", "2024">>

\* a site is [listing, repeat, pages]: the listing pages 1..Len(listing),
\* whether every later listing page repeats the last one (a paginator that
\* never ends) or is empty, and the detail page served for each race URL
SiteBasic ==
    [ listing |-> << << Card(UA, <<"GP A">>, Date1), Card(UB, <<"Tour B">>, Date2) >> >>,
      repeat |-> FALSE,
      pages |-> [u \in {UA, UB} |-> IF u = UA THEN SinglePage(TableFull) ELSE PageTwoStages] ]

SiteOdd ==
    [ listing |-> << << Card(UA, <<"GP A">>, Date1) >>,
                     << Card(UB, <<"Tour B">>, Date1), Card(UA, <<"GP A bis">>, Date1),
                        Card(UB, <<"Tour B bis">>, Date1) >> >>,
      repeat |-> FALSE,
      pages |-> [u \in {UA, UB} |-> IF u = UA THEN SinglePage(None) ELSE PageOddStages] ]

SiteEndless ==
    [ listing |-> << << Card(UA, <<"GP A">>, Date1) >> >>,
      repeat |-> TRUE,
      pages |-> [u \in {UA} |-> SinglePage(TableOne)] ]

SiteNoMeta ==
    [ listing |-> << << Card(UB, <<"Tour B">>, <<>>), Card(UC, <<"Course C">>, Date1),
                        Card(UA, <<"GP A">>, <<"Date", "inconnue">>) >>,
                     << PlainAnchor(UA), PlainAnchor(UB) >> >>,
      repeat |-> FALSE,
      pages |-> [u \in {UA, UB, UC} |->
                    IF u = UB THEN PageTwoStages ELSE SinglePage(TableOne)] ]

SiteEmpty == [ listing |-> <<>>, repeat |-> FALSE, pages |-> [u \in {UA} |-> SinglePage(None)] ]

\* a results table that lists the same rider in two rows
TableTwins == Table(<<HeaderRow, RowLea, RowLea>>)

SiteTwins ==
    [ listing |-> << << Card(UA, <<"GP A">>, Date1) >> >>,
      repeat |-> FALSE,
      pages |-> [u \in {UA} |-> SinglePage(TableTwins)] ]

Sites == {SiteBasic, SiteOdd, SiteEndless, SiteNoMeta, SiteEmpty, SiteTwins}

\* str(n) for a natural number n
RECURSIVE Str(_)
Str(n) == IF n < 10 THEN <<Digits[n + 1]>> ELSE Str(n \div 10) \o <<Digits[(n % 10) + 1]>>

\* the i-th participant row of a results table: rank i, UCI id base + i
ParticipantRow(base, i) ==
    << Str(i), Str(base + i), <<"N", "O", "M">> \o Str(i), <<"P", "a", "u", "l">>,
       <<"P", "D", "L">>, <<"V", "C">> >>

\* a results table of 20 rows: the header row and 19 participants
TableOfTwenty(base) ==
    Table(<<HeaderRow>> \o [i \in 1..19 |-> ParticipantRow(base, i)])

\* the reference site: one listing page with 2 race cards, each race page
\* with one results table of 20 rows
SiteReference ==
    [ listing |-> << << Card(UA, <<"GP A">>, Date1), Card(UB, <<"Tour B">>, Date1) >> >>,
      repeat |-> FALSE,
      pages |-> [u \in {UA, UB} |-> IF u = UA THEN SinglePage(TableOfTwenty(100))
                                    ELSE SinglePage(TableOfTwenty(200))] ]

\* the listing page served for page number n
ListingPage(s, n) ==
    IF n <= Len(s.listing) THEN s.listing[n]
    ELSE IF s.repeat /\ s.listing # <<>> THEN s.listing[Len(s.listing)]
    ELSE <<>>

\* the storage before the first run: empty, or filled by an earlier import
\* (database/migrate_yaml_to_db.py) with the race of UA and the first stage
\* of UB under other names
EmptyStore == [races |-> <<>>, cyclists |-> <<>>, results |-> <<>>, scraping_info |-> <<>>]

IdA == <<RACE_ID_PREFIX, "gp", "-", "a">>

IdB1 == <<RACE_ID_PREFIX, "tour", "-", "b", "_", "ranking", "1">>

SeededStore ==
    [ races |-> [i \in {IdA, IdB1} |-> [date |-> <<"1", "mai", "2023">>, name |-> <<"imported">>]],
      cyclists |-> [c \in {<<"1", "0", "1">>} |-> [first_name |-> <<"L">>, last_name |-> <<"D">>]],
      results |-> [r \in {<<IdA, <<"1", "0", "1">>>>} |-> 7],
      scraping_info |-> <<>> ]

InitialStores == {EmptyStore, SeededStore}

\* the sites scraped while the storage file is flaky: its calls may raise
\* sqlite3.Error (a locked or damaged database file)
FlakyStorageSites == {SiteOdd}

\* ------------------------------------------------------------------------
\* State
\* ------------------------------------------------------------------------
VARIABLES
    site,             \* the web site scraped (fixed during a behaviour)
    db,               \* the storage file: races, cyclists, results, scraping_info
    stats,            \* self.stats
    processed_urls,   \* self.processed_urls
    card_metadata,    \* self.card_metadata
    pc,               \* position of scrape_all_races: "discover", "scrape",
                      \* "finish", "done" (returned), "interrupted", "failed"
    page_num,         \* discover_all_races: page_num
    all_race_links,   \* discover_all_races: all_race_links
    race_urls,        \* scrape_all_races: race_urls
    idx,              \* scrape_all_races: index of the next race URL
    http,             \* [requested, gap]: whether the run issued a request,
                      \* and the seconds slept since the last one
    trace,            \* what scrape_all_races did at its end: metadata update,
                      \* summary, return, raise
    run,              \* number of the current run
    direct_calls,     \* direct calls of scrape_race_details after the run
    fail_budget,      \* fetches the network may still fail in this run
    fault_budget,     \* storage calls that may still raise
    last,             \* observation of the last handler executed
    pages_requested,  \* history: listing pages requested by this run
    page_yields,      \* history: number of links each completed listing page gave
    handled,          \* history: URLs scrape_race_details returned for in this run
    scraped_ok,       \* history: URLs scrape_race_details returned True for, in any run
    imported,         \* history: the race ids stored before the first run
    probe,            \* inputs and outputs of the pure functions under test
    db_file,          \* API server: the contents of the file at DB_PATH, as the
                      \* number of writes committed to it
    current_hash,     \* DatabaseMonitor.current_hash
    cached_races_data,\* DatabaseMonitor.cached_races_data (cached_json_response
                      \* is its serialisation, assigned with it)
    monitor_pc,       \* position of the thread running update_cache or
                      \* monitor_database: "read", "store", "check"
    races_data,       \* update_cache: the local races_data
    read_errors,      \* history: update_cache calls whose read raised
    served            \* body of the last answer of GET /api/races/data

api == <<db_file, current_hash, cached_races_data, monitor_pc, races_data,
         read_errors, served>>

vars == <<site, db, stats, processed_urls, card_metadata, pc, page_num,
          all_race_links, race_urls, idx, http, trace, run, direct_calls,
          fail_budget, fault_budget, last, pages_requested, page_yields, handled, scraped_ok,
          imported, probe, api>>

ZeroStats ==
    [new_races |-> 0, skipped_races |-> 0, new_cyclists |-> 0,
     new_results |-> 0, errors |-> 0, pages_scraped |-> 0]

NoObservation ==
    [op |-> "none", url |-> UA, ret |-> FALSE, resp |-> FALSE, reqs |-> 0,
     min_gap |-> GapCap,
     calls |-> <<>>, hits |-> <<>>, before |-> ZeroStats, after |-> ZeroStats,
     interrupted |-> FALSE, was_handled |-> FALSE, was_processed |-> FALSE,
     was_scraped |-> FALSE, races_before |-> <<>>, results_before |-> <<>>,
     raises |-> <<>>, attempts |-> <<>>]

NoProbe == [f |-> "none"]

\* None, where a hash or the races data is expected
NoHash == [none |-> TRUE, md5 |-> 0]
NoData == [none |-> TRUE, races |-> 0]

\* hashlib.md5(f.read()).hexdigest() of the file contents, kept symbolic
Md5(contents) == [none |-> FALSE, md5 |-> contents]

\* db.get_races_data() evaluated on the file contents
RacesData(contents) == [none |-> FALSE, races |-> contents]

\* DatabaseMonitor.__init__, before start_monitoring calls update_cache
MonitorInit ==
    /\ db_file = 0
    /\ current_hash = NoHash
    /\ cached_races_data = NoData
    /\ monitor_pc = "read"
    /\ races_data = NoData
    /\ read_errors = 0
    /\ served = NoData

\* OptimizedCyclingScraperDB.__init__ followed by the call of scrape_all_races
SessionInit ==
    /\ stats = ZeroStats
    /\ processed_urls = {}
    /\ card_metadata = <<>>
    /\ pc = "discover"
    /\ page_num = 1
    /\ all_race_links = <<>>
    /\ race_urls = <<>>
    /\ idx = 1
    /\ http = [requested |-> FALSE, gap |-> 0]
    /\ trace = <<>>
    /\ direct_calls = 0
    /\ fail_budget = MaxFetchFailures
    /\ last = NoObservation
    /\ pages_requested = <<>>
    /\ page_yields = <<>>
    /\ handled = {}

Init ==
    /\ site \in Sites
    /\ db \in InitialStores
    /\ run = 1
    /\ scraped_ok = {}
    /\ imported = DOMAIN db.races
    /\ fault_budget = IF site \in FlakyStorageSites THEN MaxStorageFaults ELSE 0
    /\ probe = NoProbe
    /\ SessionInit
    /\ MonitorInit

\* the execution record a handler starts from
Begin(fuel) ==
    [ races |-> db.races, cyclists |-> db.cyclists, results |-> db.results,
      stats |-> stats, processed |-> processed_urls, meta |-> card_metadata,
      gap |-> http.gap, requested |-> http.requested,
      calls |-> <<>>, hits |-> <<>>, reqs |-> 0, min_gap |-> GapCap,
      events |-> <<>>, fault |-> 0, raises |-> <<>>, attempts |-> <<>>,
      fuel |-> fuel, halted |-> FALSE, steps |-> 0,
      ret |-> FALSE, resp |-> FALSE, raised |-> FALSE, links |-> <<>> ]

\* ... when the storage raises at the fault-th storage call of the handler
BeginWith(fuel, fault) == [Begin(fuel) EXCEPT !.fault = fault]

\* the state a handler leaves
Commit(st) ==
    /\ db' = [db EXCEPT !.races = st.races, !.cyclists = st.cyclists, !.results = st.results]
    /\ stats' = st.stats
    /\ processed_urls' = st.processed
    /\ card_metadata' = st.meta
    /\ http' = [requested |-> st.requested, gap |-> st.gap]

Observe(op, url, st) ==
    last' = [op |-> op, url |-> url, ret |-> st.ret, resp |-> st.resp, reqs |-> st.reqs,
             min_gap |-> st.min_gap, calls |-> st.calls, hits |-> st.hits,
             before |-> stats, after |-> st.stats,
             interrupted |-> st.halted, was_handled |-> url \in handled,
             was_processed |-> url \in processed_urls,
             was_scraped |-> url \in scraped_ok,
             races_before |-> db.races, results_before |-> db.results,
             raises |-> st.raises, attempts |-> st.attempts]

Fails == IF fail_budget > 0 THEN 0..MAX_RETRIES ELSE {0}

\* the storage call of a handler that raises (0: none)
Faults == IF fault_budget > 0 THEN 0..MaxFaultAt ELSE {0}

SpendFault(fault) == fault_budget' = IF fault > 0 THEN fault_budget - 1 ELSE fault_budget

SpendBudget(fails) == fail_budget' = IF fails > 0 THEN fail_budget - 1 ELSE fail_budget

\* scrape_all_races after discover_all_races returned (lines 590-599)
AfterDiscovery(links) ==
    /\ race_urls' = Dedup(links, <<>>)
    /\ idx' = 1
    /\ IF Dedup(links, <<>>) = <<>>
       THEN pc' = "done" /\ trace' = <<"return">>
       ELSE pc' = "scrape" /\ trace' = trace

\* faulty variant of Propagate: the exception is re-raised without a summary
PropagateSilently(exc) ==
    /\ pc' = IF exc = "KeyboardInterrupt" THEN "interrupted" ELSE "failed"
    /\ trace' = trace \o <<exc>>

\* the except clauses of scrape_all_races (lines 621-628)
Propagate(exc) ==
    /\ pc' = IF exc = "KeyboardInterrupt" THEN "interrupted" ELSE "failed"
    /\ trace' = trace \o <<"print_summary", exc>>

\* ------------------------------------------------------------------------
\* Actions
\* ------------------------------------------------------------------------
\* faulty variant of MorePages: the ceiling is checked one page too late
MorePagesOffByOne(n) == n <= MAX_PAGES + 1

\* the loop condition of discover_all_races (line 567)
MorePages(n) == n <= MAX_PAGES

\* one iteration of the loop of discover_all_races (lines 567-578), with the
\* end of the discovery when the loop is left
DiscoverIteration(fuel, fails) ==
    LET s1 == scrape_race_list_page(Begin(fuel), ListingPage(site, page_num), fails)
    IN  IF s1.links = <<>> THEN s1 ELSE Sleep(s1, RATE_LIMIT_DELAY)

DiscoverPage ==
    /\ pc = "discover"
    /\ MorePages(page_num)
    /\ \E fails \in Fails :
         LET st == DiscoverIteration(-1, fails)
         IN  /\ Commit(st)
             /\ Observe("scrape_race_list_page", UA, st)
             /\ SpendBudget(fails)
             /\ pages_requested' = Append(pages_requested, page_num)
             /\ page_yields' = Append(page_yields, Len(st.links))
             /\ IF st.links = <<>>
                THEN /\ UNCHANGED <<page_num, all_race_links>>
                     /\ AfterDiscovery(all_race_links)
                ELSE /\ page_num' = page_num + 1
                     /\ all_race_links' = all_race_links \o st.links
                     /\ IF MorePages(page_num + 1)
                        THEN UNCHANGED <<pc, race_urls, idx, trace>>
                        ELSE AfterDiscovery(all_race_links \o st.links)
    /\ UNCHANGED <<site, run, direct_calls, fault_budget, handled, scraped_ok, imported,
                   probe, api>>

\* KeyboardInterrupt during an iteration of the discovery loop
InterruptedDiscoverPage ==
    /\ pc = "discover"
    /\ MorePages(page_num)
    /\ \E fails \in Fails :
         \E fuel \in 0..(DiscoverIteration(-1, fails).steps - 1) :
           LET st == DiscoverIteration(fuel, fails)
           IN  /\ Commit(st)
               /\ Observe("scrape_race_list_page", UA, st)
               /\ SpendBudget(fails)
               /\ pages_requested' = IF st.reqs > 0 THEN Append(pages_requested, page_num)
                                     ELSE pages_requested
               /\ Propagate("KeyboardInterrupt")
    /\ UNCHANGED <<site, page_num, all_race_links, race_urls, idx, run, direct_calls,
                   fault_budget, page_yields, handled, scraped_ok, imported, probe, api>>

\* an exception other than a RequestException raised while a listing page
\* is fetched and parsed: nothing catches it before scrape_all_races
ListPageRaises ==
    /\ pc = "discover"
    /\ MorePages(page_num)
    /\ LET st == get_page_with_retry(Begin(-1), 0, 0)
       IN  /\ Commit(st)
           /\ Observe("scrape_race_list_page", UA, st)
    /\ pages_requested' = Append(pages_requested, page_num)
    /\ Propagate("Exception")
    /\ UNCHANGED <<site, page_num, all_race_links, race_urls, idx, run, direct_calls,
                   fail_budget, fault_budget, page_yields, handled, scraped_ok, imported,
                   probe, api>>

\* one iteration of the loop of scrape_all_races (lines 600-613)
ScrapeIteration(fuel, fails, fault) ==
    Sleep(scrape_race_details(BeginWith(fuel, fault), race_urls[idx],
                              site.pages[race_urls[idx]], fails),
          RATE_LIMIT_DELAY)

ScrapeNext ==
    /\ pc = "scrape"
    /\ \E fails \in Fails, fault \in Faults :
         LET st == ScrapeIteration(-1, fails, fault)
         IN  /\ Commit(st)
             /\ Observe("scrape_race_details", race_urls[idx], st)
             /\ SpendBudget(fails)
             /\ SpendFault(fault)
             /\ scraped_ok' = IF st.ret THEN scraped_ok \cup {race_urls[idx]} ELSE scraped_ok
    /\ handled' = handled \cup {race_urls[idx]}
    /\ idx' = idx + 1
    /\ pc' = IF idx + 1 > Len(race_urls) THEN "finish" ELSE "scrape"
    /\ UNCHANGED <<site, page_num, all_race_links, race_urls, trace, run, direct_calls,
                   pages_requested, page_yields, imported, probe, api>>

\* KeyboardInterrupt during an iteration of the scraping loop
InterruptedScrape ==
    /\ pc = "scrape"
    /\ \E fails \in Fails :
         \E fuel \in 0..(ScrapeIteration(-1, fails, 0).steps - 1) :
           LET st == ScrapeIteration(fuel, fails, 0)
           IN  /\ Commit(st)
               /\ Observe("scrape_race_details", race_urls[idx], st)
               /\ SpendBudget(fails)
    /\ Propagate("KeyboardInterrupt")
    /\ UNCHANGED <<site, page_num, all_race_links, race_urls, idx, run, direct_calls,
                   fault_budget, pages_requested, page_yields, handled, scraped_ok,
                   imported, probe, api>>

\* CyclingDatabase.update_scraping_info with the totals of get_database_stats
update_scraping_metadata(d) ==
    [d EXCEPT !.scraping_info =
        Append(@, [total_races |-> Cardinality(DOMAIN d.races),
                   total_racers |-> Cardinality(DOMAIN d.cyclists)])]

\* the end of scrape_all_races (lines 615-619)
Finish ==
    /\ pc = "finish"
    /\ db' = update_scraping_metadata(db)
    /\ trace' = trace \o <<"update_scraping_info", "print_summary", "return">>
    /\ pc' = "done"
    /\ last' = [NoObservation EXCEPT !.op = "finish"]
    /\ UNCHANGED <<site, stats, processed_urls, card_metadata, page_num, all_race_links,
                   race_urls, idx, http, run, direct_calls, fail_budget, fault_budget,
                   pages_requested, page_yields, handled, scraped_ok, imported, probe, api>>

\* KeyboardInterrupt during the end of scrape_all_races: before the metadata
\* update, or after it
InterruptedFinish ==
    /\ pc = "finish"
    /\ \E updated \in BOOLEAN :
         /\ db' = IF updated THEN update_scraping_metadata(db) ELSE db
         /\ trace' = trace \o (IF updated THEN <<"update_scraping_info">> ELSE <<>>)
                           \o <<"print_summary", "KeyboardInterrupt">>
    /\ pc' = "interrupted"
    /\ last' = [NoObservation EXCEPT !.op = "finish", !.interrupted = TRUE]
    /\ UNCHANGED <<site, stats, processed_urls, card_metadata, page_num, all_race_links,
                   race_urls, idx, http, run, direct_calls, fail_budget, fault_budget,
                   pages_requested, page_yields, handled, scraped_ok, imported, probe, api>>

\* a caller invokes scrape_race_details again on the same scraper after
\* scrape_all_races returned
DirectCall ==
    /\ pc = "done"
    /\ direct_calls < MaxDirectCalls
    /\ \E u \in DOMAIN site.pages, fails \in Fails :
         LET st == scrape_race_details(Begin(-1), u, site.pages[u], fails)
         IN  /\ Commit(st)
             /\ Observe("direct", u, st)
             /\ SpendBudget(fails)
             /\ handled' = handled \cup {u}
             /\ scraped_ok' = IF st.ret THEN scraped_ok \cup {u} ELSE scraped_ok
    /\ direct_calls' = direct_calls + 1
    /\ UNCHANGED <<site, pc, page_num, all_race_links, race_urls, idx, trace, run,
                   fault_budget, pages_requested, page_yields, imported, probe, api>>

\* the next run: a new scraper object on the same storage file
NewRun ==
    /\ pc \in {"done", "interrupted", "failed"}
    /\ run < MaxRuns
    /\ run' = run + 1
    /\ stats' = ZeroStats
    /\ processed_urls' = {}
    /\ card_metadata' = <<>>
    /\ pc' = "discover"
    /\ page_num' = 1
    /\ all_race_links' = <<>>
    /\ race_urls' = <<>>
    /\ idx' = 1
    /\ http' = [requested |-> FALSE, gap |-> 0]
    /\ trace' = <<>>
    /\ direct_calls' = 0
    /\ fail_budget' = MaxFetchFailures
    /\ last' = [NoObservation EXCEPT !.op = "new_run"]
    /\ pages_requested' = <<>>
    /\ page_yields' = <<>>
    /\ handled' = {}
    /\ UNCHANGED <<site, db, fault_budget, scraped_ok, imported, probe, api>>

Next ==
    \/ DiscoverPage
    \/ InterruptedDiscoverPage
    \/ ListPageRaises
    \/ ScrapeNext
    \/ InterruptedScrape
    \/ Finish
    \/ InterruptedFinish
    \/ DirectCall
    \/ NewRun

Spec == Init /\ [][Next]_vars

\* the runs of the scraper against the reference site, from an empty storage
InitReference ==
    /\ site = SiteReference
    /\ db = EmptyStore
    /\ run = 1
    /\ scraped_ok = {}
    /\ imported = {}
    /\ fault_budget = 0
    /\ probe = NoProbe
    /\ SessionInit
    /\ MonitorInit

\* the steps of a run that no operator interrupts
NextReference ==
    \/ DiscoverPage
    \/ ListPageRaises
    \/ ScrapeNext
    \/ Finish
    \/ DirectCall
    \/ NewRun

SpecReference == InitReference /\ [][NextReference]_vars

\* ------------------------------------------------------------------------
\* Pure functions under test
\* ------------------------------------------------------------------------
ProbeUrls ==
    { UA, UB, UC, WithFragment(UA, Ranking1), WithFragment(UB, Ranking2),
      Url(<< <<"courses">>, <<"gp", "-", "a">> >>, FALSE, <<>>),
      Url(<< <<"a">>, <<"resultats">> >>, TRUE, <<>>),
      Url(<<>>, FALSE, <<>>) }

ProbeNames == { <<"GP A">>, <<"GP A bis">>, <<"Tour B", " - ", "Etape 1">> }

ProbeDates == { <<"25", "mai", "2024">>, <<>>, DEFAULT_DATE }

ProbesGenerateRaceId ==
    [ f : {"generate_race_id"}, url : ProbeUrls,
      name1 : ProbeNames, date1 : ProbeDates,
      name2 : ProbeNames, date2 : ProbeDates,
      done : {FALSE}, id1 : {<<>>}, id2 : {<<>>} ]

\* https://paysdelaloirecyclisme.fr/resultats/tour-b_ranking1
UBStage == Url(<< <<"resultats">>, <<"tour", "-", "b", "_", "ranking", "1">> >>, FALSE, <<>>)

\* generate_race_id called for two leaderboards: the page URL of a
\* single-table race, or race_url + "#" + payload for a stage
PairUrls == ProbeUrls \cup {UBStage, WithFragment(UB, Ranking1)}

ProbesRaceIdPair ==
    [ f : {"race_id_pair"}, url1 : PairUrls, url2 : PairUrls,
      name : {<<"GP A">>}, date : {DEFAULT_DATE},
      done : {FALSE}, id1 : {<<>>}, id2 : {<<>>} ]

\* calls get_page_with_retry(session, url, retries) against a server that
\* fails the first `fails` attempts
ProbesGetPageWithRetry ==
    [ f : {"get_page_with_retry"}, retries : 0..MaxProbeRetries,
      fails : 0..(MaxProbeRetries + 1),
      done : {FALSE}, events : {<<>>}, resp : {FALSE} ]

\* ------------------------------------------------------------------------
\* api/server.py: POST /api/research/scrape-race
\* ------------------------------------------------------------------------
\* str.isdigit() and str.isspace()
AllDigits(s) == s # <<>> /\ \A i \in 1..Len(s) : IsDigit(s[i])

AllSpaces(s) == s # <<>> /\ \A i \in 1..Len(s) : IsSpace(s[i])

\* the list user_agents of scrape_race_data, in its order
user_agents == <<"Chrome/Windows", "Safari/iPhone", "Chrome/Android", "Firefox/Windows">>

allowed_domains == {"paysdelaloirecyclisme.fr", "velo.ffc.fr"}

\* a local variable of the handler: bound says whether it was assigned
Unbound == [bound |-> FALSE, v |-> <<>>]

Bound(v) == [bound |-> TRUE, v |-> v]

\* the test of the first cell made by scrape_race_data (line 628)
LooksLikePosition(first_cell_raw) ==
    \/ Strip(first_cell_raw) = <<>>
    \/ AllSpaces(first_cell_raw)
    \/ (AllDigits(Strip(first_cell_raw)) /\ Len(Strip(first_cell_raw)) <= 3)

\* the loop `for row in rows[1:]` of scrape_race_data (lines 620-650); a row
\* is the sequence of the texts of its td cells, uci_id is the handler's
\* local variable of that name, a line is the sequence of its tab-separated
\* fields.  raised: reading uci_id raised UnboundLocalError.
RECURSIVE EntryLines(_, _, _)
EntryLines(rows, uci_id, lines) ==
    IF rows = <<>> THEN [raised |-> FALSE, lines |-> lines]
    ELSE LET cells == Head(rows)
         IN  IF Len(cells) < 7 THEN EntryLines(Tail(rows), uci_id, lines)
             ELSE LET uci1 == IF LooksLikePosition(cells[1])
                              THEN uci_id
                              ELSE Bound(Strip(cells[1]))
                      rest == <<Strip(cells[2]), Strip(cells[3]), Strip(cells[4]),
                                Strip(cells[5]), Strip(cells[6]), Strip(cells[7])>>
                  IN  IF ~uci1.bound THEN [raised |-> TRUE, lines |-> lines]
                      ELSE EntryLines(Tail(rows), uci1, Append(lines, <<uci1.v>> \o rest))

\* the start of the loop over user_agents: nothing fetched, nothing accepted
NoFetch == [soup |-> 0, successful_user_agent |-> "None", requests |-> <<>>]

\* faulty variant of TryUserAgents: the loop does not stop at a page with a table
RECURSIVE TryUserAgentsNoBreak(_, _, _)
TryUserAgentsNoBreak(i, outcomes, acc) ==
    IF i > Len(user_agents) THEN acc
    ELSE LET a1 == [acc EXCEPT !.requests = Append(@, user_agents[i])]
         IN  IF outcomes[i] = "error" THEN TryUserAgentsNoBreak(i + 1, outcomes, a1)
             ELSE IF outcomes[i] = "table"
                  THEN TryUserAgentsNoBreak(i + 1, outcomes,
                           [a1 EXCEPT !.soup = i, !.successful_user_agent = user_agents[i]])
                  ELSE TryUserAgentsNoBreak(i + 1, outcomes, [a1 EXCEPT !.soup = i])

\* the loop `for user_agent in user_agents` of scrape_race_data (lines
\* 566-582), from the i-th identity on.  outcomes[i] is what the server
\* does for the i-th identity: "error" (a RequestException), "notable" (a
\* page without table), "norows" (a table without tr), "table" (a table
\* with rows).  soup is the number of the identity whose page is kept.
RECURSIVE TryUserAgents(_, _, _)
TryUserAgents(i, outcomes, acc) ==
    IF i > Len(user_agents) THEN acc
    ELSE LET a1 == [acc EXCEPT !.requests = Append(@, user_agents[i])]
         IN  IF outcomes[i] = "error" THEN TryUserAgents(i + 1, outcomes, a1)
             ELSE IF outcomes[i] = "table"
                  THEN [a1 EXCEPT !.soup = i, !.successful_user_agent = user_agents[i]]
                  ELSE TryUserAgents(i + 1, outcomes, [a1 EXCEPT !.soup = i])

\* the answer of the handler; page is the number of the identity whose page
\* was parsed (0: none), requests the identities sent, user_agent_used the
\* handler's successful_user_agent, which the JSON body carries together
\* with race_name and entry_list when the status is 200
Answer(status, fetched, entry_list) ==
    [ status |-> status, page |-> fetched.soup, race_name |-> fetched.soup,
      entry_list |-> entry_list,
      user_agent_used |-> fetched.successful_user_agent,
      requests |-> fetched.requests ]

\* server.scrape_race_data: netloc is the host of the posted URL (<<>> when
\* no URL was posted), rows are the rows after the header row of the table
\* of a page with rows; the page served to the i-th identity has i as h1.
scrape_race_data(netloc, outcomes, rows) ==
    IF netloc = "" THEN Answer(400, NoFetch, <<>>)
    ELSE IF netloc \notin allowed_domains THEN Answer(400, NoFetch, <<>>)
    ELSE LET fetched == TryUserAgents(1, outcomes, NoFetch)
         IN  IF fetched.soup = 0 THEN Answer(500, fetched, <<>>)
             ELSE LET parsed == IF outcomes[fetched.soup] = "table"
                                THEN EntryLines(rows, Unbound, <<>>)
                                ELSE [raised |-> FALSE, lines |-> <<>>]
                  IN  IF parsed.raised THEN Answer(500, fetched, <<>>)
                      ELSE IF parsed.lines = <<>> THEN Answer(400, fetched, <<>>)
                      ELSE Answer(200, fetched, parsed.lines)

\* rows of an entry table: with a position cell, with a blank first cell,
\* without position column, and one of six cells
EntryRowPos == << <<"1", "2">>, <<"1", "0", "1">>, <<"D", "U", "P", "O", "N", "T">>,
                  <<"L", "e", "a">>, <<"J">>, <<"P", "D", "L">>, <<"V", "C">>, <<"T">> >>

EntryRowBlank == << <<" ">>, <<"1", "0", "2">>, <<"M", "A", "R", "T", "I", "N">>,
                    <<"T", "o", "m">>, <<"J">>, <<"P", "D", "L">>, <<"V", "C">>, <<"T">> >>

EntryRowUci == << <<"1", "0", "0", "3">>, <<"P", "E", "T", "I", "T">>, <<"A", "n", "n">>,
                  <<"J">>, <<"P", "D", "L">>, <<"V", "C">>, <<"T">> >>

EntryRowSix == << <<"1", "0", "0", "4">>, <<"R", "O", "U", "X">>, <<"G", "u", "y">>,
                  <<"J">>, <<"P", "D", "L">>, <<"V", "C">> >>

EntryRows == {EntryRowPos, EntryRowBlank, EntryRowUci, EntryRowSix}

Outcomes == {"error", "notable", "norows", "table"}

ProbesScrapeRaceData ==
    [ f : {"scrape_race_data"},
      netloc : {"", "example.org", "velo.ffc.fr"},
      outcomes : [1..Len(user_agents) -> Outcomes],
      rows : UNION {[1..n -> EntryRows] : n \in 1..MaxEntryRows},
      done : {FALSE}, answer : {Answer(0, NoFetch, <<>>)} ]

ClubChars == {"5", "2", " ", "V"}

ClubSebastien ==
    <<"5", "2", "4", "4", "1", "9", "7", " ", "V", "C", " ", "S", "T", " ",
      "S", "E", "B", "A", "S", "T", "I", "E", "N">>

\* raw club texts: every text of at most MaxClubLen characters of
\* ClubChars, and the examples "5244197 VC ST SEBASTIEN" and "123"
ProbesCleanClubName ==
    [ f : {"clean_club_name"},
      club_raw : UNION {[1..n -> ClubChars] : n \in 0..MaxClubLen}
                   \cup {ClubSebastien, <<"1", "2", "3">>},
      done : {FALSE}, club : {NoText} ]

\* a participant row whose rank cell reads "0"
RowZero == << <<"0">>, <<"1", "0", "4">>, <<"R", "O", "U", "X">>, <<"G", "u", "y">> >>

\* a row of four cells without text
RowBlank == << <<>>, <<" ">>, <<>>, <<" ", " ">> >>

\* a row that repeats the header in its name cells, in mixed letter case
RowRider == << <<"3">>, <<"1", "0", "5">>, <<"B", "L", "A", "N", "C">>,
               <<" ", "R", "i", "d", "e", "r">> >>

ProbeRows == {RowLea, RowDnf, RowZero, RowShort, RowBlank, RowHeaderLike, RowRider}

\* the rows after the header row of a results table, handed one by one to
\* extract_participant_data as _process_race_participants does
ProbesExtractParticipantData ==
    [ f : {"extract_participant_data"},
      rows : UNION {[1..n -> ProbeRows] : n \in 1..MaxProbeRows},
      done : {FALSE}, data : {<<>>} ]

\* the API server starts on a storage that no scraper of the model touches
InitMonitor ==
    /\ site = SiteEmpty
    /\ db = EmptyStore
    /\ run = 1
    /\ scraped_ok = {}
    /\ imported = {}
    /\ fault_budget = 0
    /\ probe = NoProbe
    /\ SessionInit
    /\ MonitorInit

FnInit ==
    /\ site = SiteEmpty
    /\ db = EmptyStore
    /\ run = 1
    /\ scraped_ok = {}
    /\ imported = {}
    /\ fault_budget = 0
    /\ SessionInit
    /\ MonitorInit
    /\ probe \in ProbesGenerateRaceId \cup ProbesRaceIdPair \cup ProbesGetPageWithRetry
                   \cup ProbesExtractParticipantData \cup ProbesScrapeRaceData
                   \cup ProbesCleanClubName

\* generate_race_id called for each of two URLs
ApplyRaceIdPair ==
    /\ probe.f = "race_id_pair"
    /\ ~probe.done
    /\ probe' = [probe EXCEPT !.done = TRUE,
                              !.id1 = generate_race_id(probe.name, probe.date, probe.url1),
                              !.id2 = generate_race_id(probe.name, probe.date, probe.url2)]
    /\ UNCHANGED <<site, db, stats, processed_urls, card_metadata, pc, page_num,
                   all_race_links, race_urls, idx, http, trace, run, direct_calls,
                   fail_budget, fault_budget, last, pages_requested, page_yields, handled,
                   scraped_ok, imported, api>>

\* two calls of generate_race_id for the same URL
ApplyGenerateRaceId ==
    /\ probe.f = "generate_race_id"
    /\ ~probe.done
    /\ probe' = [probe EXCEPT !.done = TRUE,
                              !.id1 = generate_race_id(probe.name1, probe.date1, probe.url),
                              !.id2 = generate_race_id(probe.name2, probe.date2, probe.url)]
    /\ UNCHANGED <<site, db, stats, processed_urls, card_metadata, pc, page_num,
                   all_race_links, race_urls, idx, http, trace, run, direct_calls,
                   fail_budget, fault_budget, last, pages_requested, page_yields, handled,
                   scraped_ok, imported, api>>

\* one call of get_page_with_retry
ApplyGetPageWithRetry ==
    /\ probe.f = "get_page_with_retry"
    /\ ~probe.done
    /\ LET st == RetryLoop(Begin(-1), 0, probe.fails, probe.retries)
       IN  probe' = [probe EXCEPT !.done = TRUE, !.events = st.events, !.resp = st.resp]
    /\ UNCHANGED <<site, db, stats, processed_urls, card_metadata, pc, page_num,
                   all_race_links, race_urls, idx, http, trace, run, direct_calls,
                   fail_budget, fault_budget, last, pages_requested, page_yields, handled,
                   scraped_ok, imported, api>>

\* the loop `for row in rows[1:]` applied to the rows of one table
ApplyExtractParticipantData ==
    /\ probe.f = "extract_participant_data"
    /\ ~probe.done
    /\ probe' = [probe EXCEPT !.done = TRUE,
                              !.data = [i \in 1..Len(probe.rows) |->
                                           extract_participant_data(probe.rows[i])]]
    /\ UNCHANGED <<site, db, stats, processed_urls, card_metadata, pc, page_num,
                   all_race_links, race_urls, idx, http, trace, run, direct_calls,
                   fail_budget, fault_budget, last, pages_requested, page_yields, handled,
                   scraped_ok, imported, api>>

\* one request POST /api/research/scrape-race
ApplyScrapeRaceData ==
    /\ probe.f = "scrape_race_data"
    /\ ~probe.done
    /\ probe' = [probe EXCEPT !.done = TRUE,
                              !.answer = scrape_race_data(probe.netloc, probe.outcomes,
                                                          probe.rows)]
    /\ UNCHANGED <<site, db, stats, processed_urls, card_metadata, pc, page_num,
                   all_race_links, race_urls, idx, http, trace, run, direct_calls,
                   fail_budget, fault_budget, last, pages_requested, page_yields, handled,
                   scraped_ok, imported, api>>

\* one call of clean_club_name
ApplyCleanClubName ==
    /\ probe.f = "clean_club_name"
    /\ ~probe.done
    /\ probe' = [probe EXCEPT !.done = TRUE, !.club = clean_club_name(probe.club_raw)]
    /\ UNCHANGED <<site, db, stats, processed_urls, card_metadata, pc, page_num,
                   all_race_links, race_urls, idx, http, trace, run, direct_calls,
                   fail_budget, fault_budget, last, pages_requested, page_yields, handled,
                   scraped_ok, imported, api>>

FnNext ==
    \/ ApplyCleanClubName
    \/ ApplyScrapeRaceData
    \/ ApplyGenerateRaceId
    \/ ApplyRaceIdPair
    \/ ApplyGetPageWithRetry
    \/ ApplyExtractParticipantData

SpecFn == FnInit /\ [][FnNext]_vars

\* ------------------------------------------------------------------------
\* api/server.py: DatabaseMonitor and GET /api/races/data
\* ------------------------------------------------------------------------
scraper_vars == <<site, db, stats, processed_urls, card_metadata, pc, page_num,
                  all_race_links, race_urls, idx, http, trace, run, direct_calls,
                  fail_budget, fault_budget, last, pages_requested, page_yields,
                  handled, scraped_ok, imported, probe>>

\* another process (a scrape, an import) commits a write to the storage file
WriteFile ==
    /\ db_file < MaxWrites
    /\ db_file' = db_file + 1
    /\ UNCHANGED <<current_hash, cached_races_data, monitor_pc, races_data,
                   read_errors, served, scraper_vars>>

\* update_cache: races_data = self.db.get_races_data()
UpdateCacheRead ==
    /\ monitor_pc = "read"
    /\ races_data' = RacesData(db_file)
    /\ monitor_pc' = "store"
    /\ UNCHANGED <<db_file, current_hash, cached_races_data, read_errors, served,
                   scraper_vars>>

\* update_cache: the read raises (the storage is locked by the writer), the
\* except clause prints the error and the cache is left as it was
UpdateCacheRaises ==
    /\ monitor_pc = "read"
    /\ read_errors < MaxReadErrors
    /\ read_errors' = read_errors + 1
    /\ monitor_pc' = "check"
    /\ UNCHANGED <<db_file, current_hash, cached_races_data, races_data, served,
                   scraper_vars>>

\* update_cache, under self.lock: the cache takes the data read before, and
\* current_hash the hash of the file as it is now
UpdateCacheStore ==
    /\ monitor_pc = "store"
    /\ cached_races_data' = races_data
    /\ current_hash' = Md5(db_file)
    /\ monitor_pc' = "check"
    /\ UNCHANGED <<db_file, races_data, read_errors, served, scraper_vars>>

\* monitor_database: one turn of the loop; update_cache is called when the
\* hash of the file differs from current_hash, then the thread sleeps
MonitorCheck ==
    /\ monitor_pc = "check"
    /\ LET new_hash == Md5(db_file)
       IN  monitor_pc' = IF ~new_hash.none /\ new_hash # current_hash
                         THEN "read" ELSE "check"
    /\ UNCHANGED <<db_file, current_hash, cached_races_data, races_data,
                   read_errors, served, scraper_vars>>

\* GET /api/races/data: the cached response when there is one, else the
\* data read from the storage at once
get_races_data ==
    /\ served' = IF ~cached_races_data.none THEN cached_races_data
                 ELSE RacesData(db_file)
    /\ UNCHANGED <<db_file, current_hash, cached_races_data, monitor_pc,
                   races_data, read_errors, scraper_vars>>

\* the steps of the thread that runs update_cache and monitor_database
MonitorStep ==
    \/ UpdateCacheRead
    \/ UpdateCacheRaises
    \/ UpdateCacheStore
    \/ MonitorCheck

MonitorNext ==
    \/ WriteFile
    \/ MonitorStep
    \/ get_races_data

\* the API server next to a writer of the storage file
SpecMonitor == InitMonitor /\ [][MonitorNext]_vars

\* the monitor thread is scheduled again and again (its loop sleeps 5 s
\* between two turns and never ends while the server runs)
SpecMonitorFair == SpecMonitor /\ WF_vars(MonitorStep)

\* ------------------------------------------------------------------------
\* Properties
\* ------------------------------------------------------------------------
SeqToSet(q) == {q[i] : i \in 1..Len(q)}

\* the cyclists with a stored result for a race
ResultsOf(results, race_id) == {k[2] : k \in {x \in DOMAIN results : x[1] = race_id}}

\* the UCI IDs of the valid participant rows of a table
ValidUcis(table) ==
    IF IsNone(table) THEN {}
    ELSE {extract_participant_data(table.rows[i]).uci_id :
             i \in {j \in 2..Len(table.rows) : ~IsNone(extract_participant_data(table.rows[j]))}}

\* the leaderboards of the page of a URL: the id and the table of each
Leaderboards(u) ==
    LET page == site.pages[u]
        card_data == card_metadata[u]
        etapes == find_etape_stages(page)
    IN  IF etapes # <<>>
        THEN { [ id |-> generate_race_id(card_data.name \o <<" - ">> \o etapes[i].etape_name,
                                         card_data.date, WithFragment(u, etapes[i].payload)),
                 table |-> find_etape_results_table(page, etapes[i].payload) ] :
               i \in 1..Len(etapes) }
        ELSE { [ id |-> generate_race_id(card_data.name, card_data.date, u),
                 table |-> find_results_table(page) ] }

\* the last handler was a call of scrape_race_details that returned
ScrapeReturned ==
    /\ last.op \in {"scrape_race_details", "direct"}
    /\ ~last.interrupted

\* ... and it processed the page of a URL with card metadata and a known date
PageProcessed ==
    /\ ScrapeReturned
    /\ last.resp
    /\ last.url \in DOMAIN card_metadata
    /\ card_metadata[last.url].date # DEFAULT_DATE

\* the ids of the add_or_update_race calls of the last handler, in order
RacesAdded ==
    LET keep == [i \in 1..Len(last.calls) |-> last.calls[i].op = "add_or_update_race"]
        kept == SelectSeq2(last.calls, keep)
    IN  [i \in 1..Len(kept) |-> kept[i].race]

\* C1: scraping a URL again, after a scrape of it that succeeded, leaves one
\* Race record per leaderboard of the page and one Participant Result per
\* (race, cyclist) of its valid rows, and is reported as skipped:
\* skipped_races increases, new_races and new_results do not.
C1_RescrapeIsIdempotentAndSkipped ==
    (ScrapeReturned /\ last.was_scraped /\ (last.reqs = 0 \/ last.resp)
       /\ last.url \in DOMAIN card_metadata)
    => /\ last.after.skipped_races > last.before.skipped_races
       /\ last.after.new_races = last.before.new_races
       /\ last.after.new_results = last.before.new_results
       /\ \A lb \in Leaderboards(last.url) :
            ~IsNone(lb.table) =>
               /\ lb.id \in DOMAIN db.races
               /\ \A c \in ValidUcis(lb.table) : <<lb.id, c>> \in DOMAIN db.results

\* C2: a race found by the existence check is not written: after
\* race_exists(id) returned True the handler makes no storage call for that
\* id and the next storage call, if any, belongs to the next race of the page
\* (no cyclist or result write follows the hit), a race stored before the
\* handler gets no add_or_update_race or add_race_result call, and its stored
\* name, date and result rows are the same after the handler as before.
C2_ExistingRaceUntouched ==
    last.op \in {"scrape_race_details", "direct"} =>
      /\ \A i \in 1..Len(last.calls) :
           last.calls[i].op = "race_exists" =>
             \A j \in (i + 1)..Len(last.calls) :
                last.calls[j].op = "race_exists" \/ last.calls[j].race # last.calls[i].race
      /\ \A i \in 1..(Len(last.calls) - 1) :
           last.calls[i].op = "race_exists" =>
             last.calls[i + 1].op \in {"race_exists", "add_or_update_race"}
      /\ \A id \in DOMAIN last.races_before :
           /\ \A i \in 1..Len(last.calls) :
                last.calls[i].op = "race_exists" \/ last.calls[i].race # id
           /\ id \in DOMAIN db.races
           /\ db.races[id] = last.races_before[id]
           /\ \A k \in (DOMAIN db.results) \cup (DOMAIN last.results_before) :
                k[1] = id => /\ k \in DOMAIN db.results
                             /\ k \in DOMAIN last.results_before
                             /\ db.results[k] = last.results_before[k]

\* a scrape met a race that was stored before under another name, and left it
C2_Witness ==
    /\ last.op = "scrape_race_details"
    /\ ~last.interrupted
    /\ last.hits # <<>>
    /\ \E i \in 1..Len(last.hits) :
         /\ last.hits[i] \in DOMAIN last.races_before
         /\ db.races[last.hits[i]].name = <<"imported">>
    /\ last.url \in DOMAIN card_metadata
    /\ card_metadata[last.url].name # <<"imported">>

\* C3: every existence check that finds the race id in storage increments
\* skipped_races, in the stage branch as in the single-race branch.
C3_EveryHitCountsAsSkipped ==
    ScrapeReturned =>
      last.after.skipped_races - last.before.skipped_races >= Len(last.hits)

\* C4 as stated: a later call for a URL that scrape_race_details already
\* returned for in this run, whatever the outcome, issues no HTTP request.
C4_HandledUrlNeverRefetched ==
    (ScrapeReturned /\ last.was_handled) => last.reqs = 0

\* C4 amended: a later call for a URL that is in the session's processed set
\* (its stage branch ran, or its single race was found stored or was
\* persisted) issues no HTTP request.
C4_ProcessedUrlNeverRefetched ==
    (last.op \in {"scrape_race_details", "direct"} /\ last.was_processed)
       => last.reqs = 0 /\ ~last.resp

\* a second call for a processed URL returned without fetching
C4_Witness ==
    /\ last.op = "direct"
    /\ last.was_processed
    /\ last.was_handled
    /\ last.reqs = 0
    /\ last.after.skipped_races = last.before.skipped_races + 1

\* C5: a page with D > 1 detected (label, payload) pairs, none of them
\* stored, gets D Race records with pairwise distinct ids, each with the
\* participant results of its own table.
C5_StagesYieldDistinctRaces ==
    (PageProcessed /\ ~last.was_processed
       /\ Len(find_etape_stages(site.pages[last.url])) > 1
       /\ \A lb \in Leaderboards(last.url) : lb.id \notin DOMAIN last.races_before)
    => /\ Len(RacesAdded) = Len(find_etape_stages(site.pages[last.url]))
       /\ Cardinality(SeqToSet(RacesAdded)) = Len(RacesAdded)
       /\ \A lb \in Leaderboards(last.url) :
            /\ lb.id \in DOMAIN db.races
            /\ ResultsOf(db.results, lb.id) = ValidUcis(lb.table)

\* C6: a race stored by the pipeline has all the valid rows of its table or
\* none of them, and a race that the existence check finds (and so skips as
\* already existing) has all of them.
C6_BatchWrittenAsUnit ==
    (last.op \in {"scrape_race_details", "direct"} /\ last.resp
       /\ last.url \in DOMAIN card_metadata)
    => \A lb \in Leaderboards(last.url) :
         (lb.id \in DOMAIN db.races /\ lb.id \notin imported) =>
            /\ ResultsOf(db.results, lb.id) \in {ValidUcis(lb.table), {}}
            /\ lb.id \in SeqToSet(last.hits) =>
                  ResultsOf(db.results, lb.id) = ValidUcis(lb.table)

\* the URL has a path with /resultats/ in it and at least two segments
UrlDerived(u) == PathHasResultats(u) /\ Len(u.segs) >= 2

\* C7: for a URL whose path contains /resultats/ and has at least two
\* segments the id is the prefix, the final path segment and, when there is
\* one, "_" and the fragment, whatever name and date are passed; for any
\* other URL it is the hash of (name, date, URL).
C7_UrlIdIgnoresNameAndDate ==
    (probe.f = "generate_race_id" /\ probe.done) =>
       IF UrlDerived(probe.url)
       THEN /\ probe.id1 = probe.id2
            /\ probe.id1 = <<RACE_ID_PREFIX>> \o probe.url.segs[Len(probe.url.segs)]
                             \o (IF probe.url.frag # <<>> THEN <<"_">> \o probe.url.frag
                                 ELSE <<>>)
       ELSE /\ probe.id1 = <<RACE_ID_PREFIX>> \o Md5Short(
                   probe.name1 \o <<"_">> \o probe.date1 \o <<"_">> \o UrlText(probe.url))
            /\ probe.id2 = <<RACE_ID_PREFIX>> \o Md5Short(
                   probe.name2 \o <<"_">> \o probe.date2 \o <<"_">> \o UrlText(probe.url))

\* two calls with different names and dates for a URL with a slug and a fragment
C7_Witness ==
    /\ probe.f = "generate_race_id"
    /\ probe.done
    /\ UrlDerived(probe.url)
    /\ probe.url.frag # <<>>
    /\ probe.name1 # probe.name2
    /\ probe.date1 # probe.date2
    /\ probe.id1 = probe.id2

\* C29: two URLs that both take the URL-derived path and differ in their
\* final path segment or in their fragment are given different ids.
C29_UrlDerivedIdsDistinct ==
    ( /\ probe.f = "race_id_pair"
      /\ probe.done
      /\ UrlDerived(probe.url1)
      /\ UrlDerived(probe.url2)
      /\ \/ probe.url1.segs[Len(probe.url1.segs)] # probe.url2.segs[Len(probe.url2.segs)]
         \/ probe.url1.frag # probe.url2.frag )
    => probe.id1 # probe.id2

\* C30: once the storage file stays unchanged, the monitor's cache ends up
\* holding, for good, the races data read from the final contents of the file.
C30_CacheConvergesToFinalFile ==
    <>[](cached_races_data = RacesData(db_file))

\* the state the monitor is left in by a write that falls between the read
\* and the hash of update_cache: the hash recorded is that of newer contents
\* than the cached data
CacheOlderThanHash ==
    /\ monitor_pc = "check"
    /\ ~cached_races_data.none
    /\ current_hash = Md5(db_file)
    /\ cached_races_data.races < current_hash.md5

\* C8: when scrape_all_races ends by propagating a KeyboardInterrupt or an
\* exception, print_summary was called just before the exception left it.
C8_SummaryBeforePropagation ==
    pc \in {"interrupted", "failed"} =>
       /\ Len(trace) >= 2
       /\ trace[Len(trace)] = (IF pc = "interrupted" THEN "KeyboardInterrupt" ELSE "Exception")
       /\ trace[Len(trace) - 1] = "print_summary"

\* the operator interrupted a race in the middle of its storage writes
C8_Witness ==
    /\ pc = "interrupted"
    /\ last.op = "scrape_race_details"
    /\ last.interrupted
    /\ last.calls # <<>>
    /\ trace = <<"print_summary", "KeyboardInterrupt">>

\* C9: every HTTP request of a run that is not its first one is issued at
\* least RATE_LIMIT_DELAY seconds after the previous request.
C9_DelayBetweenRequests ==
    last.op \in {"scrape_race_list_page", "scrape_race_details"} =>
       last.min_gap >= RATE_LIMIT_DELAY

\* C10: the listing pages requested are 1, 2, 3, ... in order, at most
\* MAX_PAGES of them, a page that yields no link is the last one requested,
\* and the discovery goes on to the next page after a page that yields links
\* unless the ceiling is reached.
C10_PaginationInOrderAndBounded ==
    /\ \A i \in 1..Len(pages_requested) : pages_requested[i] = i
    /\ Len(pages_requested) <= MAX_PAGES
    /\ Len(page_yields) <= Len(pages_requested)
    /\ \A i \in 1..Len(page_yields) :
         page_yields[i] = 0 => (i = Len(pages_requested) /\ pc # "discover")
    /\ pc \in {"scrape", "finish", "done"} =>
         /\ Len(page_yields) = Len(pages_requested)
         /\ Len(page_yields) >= 1
         /\ \/ page_yields[Len(page_yields)] = 0
            \/ Len(pages_requested) = MAX_PAGES
    /\ pc = "discover" => page_num = Len(page_yields) + 1

\* the paginator never ended and the discovery stopped at the ceiling
C10_Witness ==
    /\ pc = "scrape"
    /\ Len(pages_requested) = MAX_PAGES
    /\ page_yields[MAX_PAGES] > 0

\* C11: get_page_with_retry(session, url, retries) against a server whose
\* first `fails` attempts fail makes min(fails + 1, retries) requests, the
\* last of them the first one that succeeds; after the failed attempt number
\* k (from 0) that is not the last allowed one it waits
\* RETRY_BACKOFF_FACTOR^k seconds and nothing else happens in between; it
\* returns the response when an attempt succeeded and None when all failed.
C11_RetryBackoffThenNone ==
    (probe.f = "get_page_with_retry" /\ probe.done) =>
       LET attempts == IF probe.fails < probe.retries THEN probe.fails + 1
                       ELSE probe.retries
       IN  /\ Len(probe.events) = IF attempts = 0 THEN 0 ELSE 2 * attempts - 1
           /\ \A i \in 1..attempts : probe.events[2 * i - 1].e = "get"
           /\ \A i \in 1..(attempts - 1) :
                 probe.events[2 * i] = [e |-> "sleep", d |-> RETRY_BACKOFF_FACTOR ^ (i - 1)]
           /\ probe.resp = (probe.fails < probe.retries)

\* the default three attempts all failed: waits of 1 and 2 seconds, then None
C11_Witness ==
    /\ probe.f = "get_page_with_retry"
    /\ probe.done
    /\ probe.retries = MAX_RETRIES
    /\ probe.fails >= MAX_RETRIES
    /\ Len(probe.events) = 5
    /\ probe.events[4].d = 2
    /\ ~probe.resp

\* C12: a call of scrape_race_details whose fetch failed after all retries
\* adds exactly one to errors and changes no other counter, makes no storage
\* call and leaves the stored races and results as they were, and returns
\* False; when the call was made by scrape_all_races the loop has moved to
\* the next URL (or to the end of the run after the last one), and a run
\* that reaches its end has called scrape_race_details for every discovered
\* URL.
C12_FetchFailureCountedRunGoesOn ==
    /\ (last.op \in {"scrape_race_details", "direct"} /\ ~last.interrupted
          /\ last.reqs > 0 /\ ~last.resp)
       => /\ last.after = [last.before EXCEPT !.errors = @ + 1]
          /\ last.reqs = MAX_RETRIES
          /\ last.calls = <<>>
          /\ db.races = last.races_before
          /\ db.results = last.results_before
          /\ ~last.ret
          /\ last.op = "scrape_race_details" =>
                /\ idx >= 2
                /\ race_urls[idx - 1] = last.url
                /\ pc = IF idx <= Len(race_urls) THEN "scrape" ELSE "finish"
    /\ pc \in {"finish", "done"} => SeqToSet(race_urls) \subseteq handled

\* the fetch of a race failed and the run has URLs left to visit
C12_Witness ==
    /\ last.op = "scrape_race_details"
    /\ ~last.interrupted
    /\ last.reqs = MAX_RETRIES
    /\ ~last.resp
    /\ last.after.errors = last.before.errors + 1
    /\ pc = "scrape"
    /\ idx <= Len(race_urls)

\* the last handler was a call of scrape_race_details that ran the stage loop
StageLoopRan ==
    /\ ScrapeReturned
    /\ last.resp
    /\ last.url \in DOMAIN card_metadata
    /\ card_metadata[last.url].date # DEFAULT_DATE
    /\ find_etape_stages(site.pages[last.url]) # <<>>

\* the ids of the stages of the last handler whose existence check or race
\* write raised
StagesRaised ==
    {last.raises[i].race : i \in {j \in 1..Len(last.raises) :
                                     last.raises[j].op \in {"race_exists", "add_or_update_race"}}}

\* C13: in a call of scrape_race_details that ran the stage loop, every
\* exception raised by a storage call is counted once in errors, the call
\* returns normally with the URL marked as processed, and every detected
\* stage that has a results table and did not itself raise is stored; the
\* call returns True exactly when a stage was written.
C13_StageFailureKeepsSiblings ==
    StageLoopRan =>
       /\ last.after.errors - last.before.errors = Len(last.raises)
       /\ last.url \in processed_urls
       /\ \A lb \in Leaderboards(last.url) :
             (~IsNone(lb.table) /\ lb.id \notin StagesRaised) => lb.id \in DOMAIN db.races
       /\ last.ret = (RacesAdded # <<>>)

\* the storage raised in one stage and a later stage of the page was written
C13_Witness ==
    /\ StageLoopRan
    /\ StagesRaised # {}
    /\ \E i \in 1..Len(RacesAdded) : RacesAdded[i] \notin StagesRaised
    /\ last.after.errors > last.before.errors
    /\ last.ret

\* the last handler was a call of scrape_race_details that wrote the single
\* race of its page and went through the rows of its results table
SingleTableProcessed ==
    /\ PageProcessed
    /\ find_etape_stages(site.pages[last.url]) = <<>>
    /\ ~IsNone(find_results_table(site.pages[last.url]))
    /\ Len(RacesAdded) = 1

\* the rows after the header row of the table of the last handler's page
DataRows == Tail(find_results_table(site.pages[last.url]).rows)

\* the UCI ids of the add_or_update_cyclist calls of the last handler, in order
CyclistsAdded ==
    LET keep == [i \in 1..Len(last.calls) |-> last.calls[i].op = "add_or_update_cyclist"]
        kept == SelectSeq2(last.calls, keep)
    IN  [i \in 1..Len(kept) |-> kept[i].uci]

\* the storage file failed during the last handler (sqlite3.Error)
StorageFaulted == \E i \in 1..Len(last.raises) : last.raises[i].op # "add_race_result"

\* C14: the storage calls made for a results table are those of its valid
\* rows, in the order of the table (a malformed row causes no write and the
\* rows after it are still processed), and every row is accounted for in the
\* statistics: new_results and errors together grow by at least the number
\* of rows, malformed rows included.
C14_MalformedRowsCounted ==
    (SingleTableProcessed /\ ~StorageFaulted) =>
       LET valid == SelectSeq2(DataRows,
                       [i \in 1..Len(DataRows) |-> ~IsNone(extract_participant_data(DataRows[i]))])
       IN  /\ CyclistsAdded = [i \in 1..Len(valid) |-> extract_participant_data(valid[i]).uci_id]
           /\ (last.after.new_results - last.before.new_results)
                + (last.after.errors - last.before.errors) >= Len(DataRows)

\* C15: every call of scrape_race_details that returns is counted as
\* skipped, persisted or errored: skipped_races, new_races or errors is
\* larger after the call than before.
C15_EveryCallCounted ==
    ScrapeReturned =>
       \/ last.after.skipped_races > last.before.skipped_races
       \/ last.after.new_races > last.before.new_races
       \/ last.after.errors > last.before.errors

\* C16: every race written by a call of scrape_race_details has the date of
\* the card metadata stored for the URL and either the card's name (single
\* race) or the card's name, " - " and the label of the stage it was
\* generated for; a call for a URL without card metadata makes no storage
\* call at all.
C16_RaceFieldsFromCard ==
    last.op \in {"scrape_race_details", "direct"} =>
       IF last.url \in DOMAIN card_metadata
       THEN LET card == card_metadata[last.url]
                etapes == find_etape_stages(site.pages[last.url])
            IN  \A i \in 1..Len(RacesAdded) :
                   LET id == RacesAdded[i]
                   IN  /\ id \in DOMAIN db.races
                       /\ db.races[id].date = card.date
                       /\ IF etapes = <<>>
                          THEN /\ db.races[id].name = card.name
                               /\ id = generate_race_id(card.name, card.date, last.url)
                          ELSE \E k \in 1..Len(etapes) :
                                 /\ db.races[id].name =
                                       card.name \o <<" - ">> \o etapes[k].etape_name
                                 /\ id = generate_race_id(db.races[id].name, card.date,
                                             WithFragment(last.url, etapes[k].payload))
       ELSE last.calls = <<>> /\ last.raises = <<>>

\* a call wrote the stages of a page under the card's name and the stage labels
C16_Witness ==
    /\ StageLoopRan
    /\ Len(RacesAdded) >= 2
    /\ db.races[RacesAdded[2]].name # card_metadata[last.url].name
    /\ db.races[RacesAdded[2]].date = card_metadata[last.url].date

\* C17: a call of scrape_race_details that finds no results table for any
\* leaderboard of its page (and meets no stored race and no storage failure)
\* writes nothing and leaves the errors counter as it was.
C17_MissingTableIsNotAnError ==
    (PageProcessed /\ last.raises = <<>> /\ last.hits = <<>>
       /\ \A lb \in Leaderboards(last.url) : IsNone(lb.table))
    => /\ last.calls = <<>>
       /\ last.after.errors = last.before.errors

\* C18: the date normalised from a card is never the empty text (a card
\* without date text gets the sentinel DEFAULT_DATE), and no race written by
\* the pipeline is stored with an empty date.
C18_NoDateGivesSentinel ==
    /\ \A u \in DOMAIN card_metadata : card_metadata[u].date # <<>>
    /\ \A id \in (DOMAIN db.races) \ imported : db.races[id].date # <<>>

\* C19: a full run against the reference site (2 race cards, each race page
\* with one table of a header row and 19 valid rows), from an empty storage
\* and with every fetch succeeding, ends with 2 races and 38 participant
\* results stored and with new_races = 2, new_results = 38, errors = 0.
C19_ReferenceRunTotals ==
    (site = SiteReference /\ run = 1 /\ pc = "done" /\ direct_calls = 0
       /\ fail_budget = MaxFetchFailures)
    => /\ Cardinality(DOMAIN db.races) = 2
       /\ Cardinality(DOMAIN db.results) = 38
       /\ stats.new_races = 2
       /\ stats.new_results = 38
       /\ stats.errors = 0

\* C20: the rank of a participant is the first run of digits of the rank
\* cell; when the cell has no digit it is the row's position in the table
\* (counted from the first data row, or from the header row); in every
\* case the rank is positive.
C20_RankFromDigitsOrRowIndex ==
    (probe.f = "extract_participant_data" /\ probe.done)
    => \A i \in 1..Len(probe.rows) :
          ~IsNone(probe.data[i])
          => LET ds == FirstDigitRun(Strip(probe.rows[i][1]))
                 rank == probe.data[i].rank
             IN  /\ rank > 0
                 /\ IF ds # <<>> THEN rank = ToInt(ds) ELSE rank \in {i, i + 1}

\* the rows of the probe's table that have the seven cells the handler asks for
WideRows == SelectSeq(probe.rows, LAMBDA r : Len(r) >= 7)

\* C21: when the first cell of a row is empty, whitespace-only or a number
\* of at most 3 digits, the UCI ID, last name and first name of its record
\* are the 2nd, 3rd and 4th cells; otherwise they are the 1st, 2nd and 3rd
\* cells.  Every row of a served table yields the record of its own fields.
C21_PositionColumnDetected ==
    (probe.f = "scrape_race_data" /\ probe.done /\ probe.netloc \in allowed_domains
       /\ \E i \in 1..Len(user_agents) : probe.outcomes[i] = "table"
       /\ WideRows # <<>>)
    => /\ probe.answer.status = 200
       /\ Len(probe.answer.entry_list) = Len(WideRows)
       /\ \A k \in 1..Len(WideRows) :
             LET cells == WideRows[k]
                 line  == probe.answer.entry_list[k]
                 o     == IF LooksLikePosition(cells[1]) THEN 1 ELSE 0
             IN  /\ line[1] = Strip(cells[1 + o])
                 /\ line[2] = Strip(cells[2 + o])
                 /\ line[3] = Strip(cells[3 + o])

\* C22: a row with fewer than 4 cells, a row whose UCI ID and name cells
\* are all empty, and a row whose first or last name is a header keyword in
\* any letter case give no record.
C22_GarbageAndHeaderRowsRejected ==
    (probe.f = "extract_participant_data" /\ probe.done)
    => \A i \in 1..Len(probe.rows) :
          LET row == probe.rows[i]
          IN  (IF Len(row) < 4 THEN TRUE
               ELSE \/ Strip(row[2]) = <<>> /\ Strip(row[3]) = <<>> /\ Strip(row[4]) = <<>>
                    \/ Lower(Strip(row[3])) \in HEADER_KEYWORDS
                    \/ Lower(Strip(row[4])) \in HEADER_KEYWORDS)
              => IsNone(probe.data[i])

\* a table with a valid row, a short row, a blank row and two header-like rows
C22_Witness ==
    /\ probe.f = "extract_participant_data" /\ probe.done
    /\ probe.rows = <<RowLea, RowShort, RowBlank, RowHeaderLike, RowRider>>
    /\ ~IsNone(probe.data[1])
    /\ \A i \in 2..5 : IsNone(probe.data[i])

\* t is a run of k digits, then spaces up to position m, then rest, the
\* run of digits and the run of spaces being the longest ones
LicencePrefixSplit(t, k, m, rest) ==
    /\ \A i \in 1..k : IsDigit(t[i])
    /\ (k < Len(t) => ~IsDigit(t[k + 1]))
    /\ \A i \in (k + 1)..m : IsSpace(t[i])
    /\ (m < Len(t) => ~IsSpace(t[m + 1]))
    /\ (k = 0 => m = 0)
    /\ rest = SubSeq(t, m + 1, Len(t))

\* C23: clean_club_name returns None only for the empty text; otherwise it
\* returns the text without surrounding blanks and without one leading run
\* of digits and the blanks after it, or the raw text when nothing would be
\* left; the result for a non-empty text is never empty.
C23_ClubWithoutLicencePrefix ==
    (probe.f = "clean_club_name" /\ probe.done)
    => LET raw == probe.club_raw
           t   == Strip(raw)
       IN  /\ probe.club.none <=> raw = <<>>
           /\ raw # <<>> => probe.club.v # <<>>
           /\ raw # <<>> =>
                 \E k \in 0..Len(t) : \E m \in k..Len(t) :
                     LicencePrefixSplit(t, k, m, SubSeq(t, m + 1, Len(t)))
                     /\ probe.club.v = IF m = Len(t) THEN raw ELSE SubSeq(t, m + 1, Len(t))
           /\ raw = ClubSebastien => probe.club.v = SubSeq(ClubSebastien, 9, 23)
           /\ raw = <<"1", "2", "3">> => probe.club.v = <<"1", "2", "3">>

\* the raw text "123", of which stripping would leave nothing, has been cleaned
C23_Witness ==
    /\ probe.f = "clean_club_name" /\ probe.done
    /\ probe.club_raw = <<"1", "2", "3">>
    /\ probe.club = Text(<<"1", "2", "3">>)

\* the identities whose response has a table with rows
TableBearing == {i \in 1..Len(user_agents) : probe.outcomes[i] = "table"}

FirstTableBearing == CHOOSE i \in TableBearing : \A j \in TableBearing : i <= j

\* C24: the identities are tried in the order of the list; once a response
\* has a table with rows no further request is made, and the page parsed
\* and the identity reported are those of that response.
C24_FirstTableBearingIdentityWins ==
    (probe.f = "scrape_race_data" /\ probe.done /\ probe.netloc \in allowed_domains)
    => /\ Len(probe.answer.requests) <= Len(user_agents)
       /\ \A i \in 1..Len(probe.answer.requests) :
             probe.answer.requests[i] = user_agents[i]
       /\ TableBearing # {}
          => /\ Len(probe.answer.requests) = FirstTableBearing
             /\ probe.answer.page = FirstTableBearing
             /\ probe.answer.user_agent_used = user_agents[FirstTableBearing]
       /\ probe.answer.status = 200
          => /\ TableBearing # {}
             /\ probe.answer.race_name = FirstTableBearing
             /\ probe.answer.entry_list # <<>>

\* the first identity was refused, the second got a page without table, the
\* third a table with rows, of which the answer reports the entries
C24_Witness ==
    /\ probe.f = "scrape_race_data" /\ probe.done
    /\ probe.outcomes[1] = "error" /\ probe.outcomes[2] = "notable"
    /\ probe.outcomes[3] = "table" /\ probe.outcomes[4] = "table"
    /\ probe.answer.status = 200
    /\ Len(probe.answer.requests) = 3
    /\ probe.answer.user_agent_used = user_agents[3]

\* C25: when scrape_all_races has returned normally, update_scraping_info
\* was called with the totals of the storage and print_summary was called
\* after it, as the last steps before the return.
C25_MetadataThenSummaryOnReturn ==
    (pc = "done" /\ direct_calls = 0)
    => /\ Len(trace) >= 3
       /\ SubSeq(trace, Len(trace) - 2, Len(trace))
             = <<"update_scraping_info", "print_summary", "return">>
       /\ db.scraping_info # <<>>
       /\ db.scraping_info[Len(db.scraping_info)]
             = [total_races |-> Cardinality(DOMAIN db.races),
                total_racers |-> Cardinality(DOMAIN db.cyclists)]

\* the storage calls made by the last call of scrape_race_details, in order
Attempts == last.attempts

\* the ids of the leaderboards of the page of the last call that have a table
IdsWithTable == {b.id : b \in {x \in Leaderboards(last.url) : ~IsNone(x.table)}}

\* C26: add_or_update_race(id) is called only for a leaderboard whose table
\* was found; every add_race_result(id, uci_id) comes after the call
\* add_or_update_race(id) and immediately after add_or_update_cyclist(uci_id);
\* the uci_id of these calls is never empty.
C26_ParentsWrittenBeforeResults ==
    (last.op \in {"scrape_race_details", "direct"} /\ Attempts # <<>>)
    => \A i \in 1..Len(Attempts) :
          /\ Attempts[i].op = "add_or_update_race" => Attempts[i].race \in IdsWithTable
          /\ Attempts[i].op = "add_or_update_cyclist" => Attempts[i].uci # <<>>
          /\ Attempts[i].op = "add_race_result"
             => /\ Attempts[i].uci # <<>>
                /\ i > 1
                /\ Attempts[i - 1] = Call("add_or_update_cyclist", <<>>, Attempts[i].uci)
                /\ \E j \in 1..(i - 1) :
                      Attempts[j] = Call("add_or_update_race", Attempts[i].race, <<>>)

\* a page with two stages was processed: each stage's race, then its
\* participants, cyclist before result
C26_Witness ==
    /\ last.op = "scrape_race_details"
    /\ ~last.interrupted
    /\ Cardinality({i \in 1..Len(Attempts) : Attempts[i].op = "add_or_update_race"}) >= 2
    /\ Cardinality({i \in 1..Len(Attempts) : Attempts[i].op = "add_race_result"}) >= 2

\* a listing page of the run was requested and its fetch failed after all
\* retries: fewer pages were scraped than requested
ListingFetchFailed ==
    /\ pc \in {"scrape", "finish", "done"}
    /\ stats.pages_scraped < Len(pages_requested)

\* C27: a listing page whose fetch failed after all retries adds one to
\* errors and nothing to pages_scraped, is the last page requested, and
\* ends the discovery with the links of the earlier pages, which are all
\* passed to scrape_race_details before the run ends.
C27_FailedListingEndsDiscovery ==
    /\ (last.op = "scrape_race_list_page" /\ ~last.interrupted /\ ~last.resp)
       => /\ last.after.errors = last.before.errors + 1
          /\ last.after.pages_scraped = last.before.pages_scraped
          /\ last.reqs = MAX_RETRIES
          /\ pc = (IF all_race_links = <<>> THEN "done" ELSE "scrape")
          /\ page_yields[Len(page_yields)] = 0
    /\ ListingFetchFailed
       => /\ Len(pages_requested) = stats.pages_scraped + 1
          /\ page_yields[Len(pages_requested)] = 0
          /\ race_urls = Dedup(all_race_links, <<>>)
          /\ pc = "scrape" => idx <= Len(race_urls)
          /\ pc \in {"finish", "done"} /\ race_urls # <<>>
                => /\ idx = Len(race_urls) + 1
                   /\ SeqToSet(race_urls) \subseteq handled

\* the fetch of listing page 2 failed, and the races of page 1 were scraped
C27_Witness ==
    /\ ListingFetchFailed
    /\ pc = "finish"
    /\ Len(pages_requested) = 2
    /\ stats.pages_scraped = 1
    /\ stats.errors >= 1
    /\ race_urls # <<>>
    /\ SeqToSet(race_urls) \subseteq handled

\* the Participant Results the storage held before the first run
ImportedResults == {k \in DOMAIN db.results : k[1] \in imported}

\* the counters of the first run equal the records it added
RunTotalsMatch ==
    /\ stats.new_races = Cardinality(DOMAIN db.races \ imported)
    /\ stats.new_results = Cardinality(DOMAIN db.results \ ImportedResults)

\* the last call changed the counters by the number of records it added
CallTotalsMatch ==
    /\ last.after.new_races - last.before.new_races
          = Cardinality(DOMAIN db.races \ DOMAIN last.races_before)
    /\ last.after.new_results - last.before.new_results
          = Cardinality(DOMAIN db.results \ DOMAIN last.results_before)

====
